---- MODULE Spec2Model ----
(***************************************************************************)
(* A model of aesfs: the AES block cipher (FIPS-197) with 128/192/256-bit  *)
(* keys, its key schedule, the round transformations over a 4x4 state,     *)
(* GF(2^8) arithmetic, PKCS7 padding and the multi-block driver.           *)
(*                                                                         *)
(* Bytes are naturals in 0..255, byte strings are sequences of bytes, and  *)
(* the State is a 4-tuple of 4-tuples (rows).  Python indices are 0-based; *)
(* state[i][j] of the source is state[i+1][j+1] here.                      *)
(*                                                                         *)
(* A call of encrypt_block, decrypt_block, encrypt or decrypt runs as a    *)
(* sequence of steps, one per transformation, so that what a call has      *)
(* executed when it fails is part of the state.  Errors are the ValueErrors*)
(* of the source, named by the kind of failure.  The calls to the logger   *)
(* change no field of the cipher and no result, and are left out.          *)
(***************************************************************************)
EXTENDS Naturals, Sequences, FiniteSets, TLC

VARIABLES
    built,            \* TRUE once a cipher object has been constructed
    raw_key,          \* the key it was constructed from (not kept by the object)
    key_size,         \* self.key_size
    nr,               \* self.nr
    expanded_key,     \* self.expanded_key
    default_padding,  \* self._default_padding
    pc,               \* position of the running call ("new"/"idle" between calls)
    cur,              \* the running top-level call and its arguments
    buf,              \* encrypt/decrypt: the bytes the block loop walks over
    idx,              \* encrypt/decrypt: loop offset i
    out,              \* encrypt/decrypt: ciphertext / plaintext accumulated so far
    state,            \* the transient 4x4 State of the running block operation
    round_num,        \* loop variable of the round loop
    ops,              \* transformations applied to state in the running block operation
    nblocks,          \* block operations started by the running top-level call
    last,             \* the last completed call, its arguments and its outcome
    logger_level      \* level of the process-wide logger every cipher holds as self.logger

vars == << built, raw_key, key_size, nr, expanded_key, default_padding, pc, cur, buf, idx,
           out, state, round_num, ops, nblocks, last, logger_level >>

(***************************************************************************)
(* Python's integer operators ^ and & on naturals of any width.            *)
(***************************************************************************)
RECURSIVE xor_bits(_, _)
xor_bits(a, b) ==
    IF a = 0 THEN b
    ELSE IF b = 0 THEN a
    ELSE (((a % 2) + (b % 2)) % 2) + 2 * xor_bits(a \div 2, b \div 2)

RECURSIVE and_bits(_, _)
and_bits(a, b) ==
    IF a = 0 \/ b = 0 THEN 0
    ELSE ((a % 2) * (b % 2)) + 2 * and_bits(a \div 2, b \div 2)

\* a ^ b on bytes, tabulated once
XorTable == [a \in 0..255 |-> [b \in 0..255 |-> xor_bits(a, b)]]

BitXor(a, b) == IF a < 256 /\ b < 256 THEN XorTable[a][b] ELSE xor_bits(a, b)

BitAnd(a, b) == and_bits(a, b)

\* seq[lo:hi] of Python for 0 <= lo, with the slice clipped to the sequence
Slice(s, lo, hi) ==
    LET h == IF hi > Len(s) THEN Len(s) ELSE hi
    IN  IF lo >= h THEN << >> ELSE SubSeq(s, lo + 1, h)

\* [v] * n
Repeat(v, n) == [k \in 1..n |-> v]

(***************************************************************************)
(* constants: the S-box, its inverse and the round constants (FIPS-197).   *)
(***************************************************************************)
SBOX_TABLE ==
  << 99, 124, 119, 123, 242, 107, 111, 197,  48,   1, 103,  43, 254, 215, 171, 118,
     202, 130, 201, 125, 250,  89,  71, 240, 173, 212, 162, 175, 156, 164, 114, 192,
     183, 253, 147,  38,  54,  63, 247, 204,  52, 165, 229, 241, 113, 216,  49,  21,
       4, 199,  35, 195,  24, 150,   5, 154,   7,  18, 128, 226, 235,  39, 178, 117,
       9, 131,  44,  26,  27, 110,  90, 160,  82,  59, 214, 179,  41, 227,  47, 132,
      83, 209,   0, 237,  32, 252, 177,  91, 106, 203, 190,  57,  74,  76,  88, 207,
     208, 239, 170, 251,  67,  77,  51, 133,  69, 249,   2, 127,  80,  60, 159, 168,
      81, 163,  64, 143, 146, 157,  56, 245, 188, 182, 218,  33,  16, 255, 243, 210,
     205,  12,  19, 236,  95, 151,  68,  23, 196, 167, 126,  61, 100,  93,  25, 115,
      96, 129,  79, 220,  34,  42, 144, 136,  70, 238, 184,  20, 222,  94,  11, 219,
     224,  50,  58,  10,  73,   6,  36,  92, 194, 211, 172,  98, 145, 149, 228, 121,
     231, 200,  55, 109, 141, 213,  78, 169, 108,  86, 244, 234, 101, 122, 174,   8,
     186, 120,  37,  46,  28, 166, 180, 198, 232, 221, 116,  31,  75, 189, 139, 138,
     112,  62, 181, 102,  72,   3, 246,  14,  97,  53,  87, 185, 134, 193,  29, 158,
     225, 248, 152,  17, 105, 217, 142, 148, 155,  30, 135, 233, 206,  85,  40, 223,
     140, 161, 137,  13, 191, 230,  66, 104,  65, 153,  45,  15, 176,  84, 187,  22 >>

INV_SBOX_TABLE ==
  << 82,   9, 106, 213,  48,  54, 165,  56, 191,  64, 163, 158, 129, 243, 215, 251,
     124, 227,  57, 130, 155,  47, 255, 135,  52, 142,  67,  68, 196, 222, 233, 203,
      84, 123, 148,  50, 166, 194,  35,  61, 238,  76, 149,  11,  66, 250, 195,  78,
       8,  46, 161, 102,  40, 217,  36, 178, 118,  91, 162,  73, 109, 139, 209,  37,
     114, 248, 246, 100, 134, 104, 152,  22, 212, 164,  92, 204,  93, 101, 182, 146,
     108, 112,  72,  80, 253, 237, 185, 218,  94,  21,  70,  87, 167, 141, 157, 132,
     144, 216, 171,   0, 140, 188, 211,  10, 247, 228,  88,   5, 184, 179,  69,   6,
     208,  44,  30, 143, 202,  63,  15,   2, 193, 175, 189,   3,   1,  19, 138, 107,
      58, 145,  17,  65,  79, 103, 220, 234, 151, 242, 207, 206, 240, 180, 230, 115,
     150, 172, 116,  34, 231, 173,  53, 133, 226, 249,  55, 232,  28, 117, 223, 110,
      71, 241,  26, 113,  29,  41, 197, 137, 111, 183,  98,  14, 170,  24, 190,  27,
     252,  86,  62,  75, 198, 210, 121,  32, 154, 219, 192, 254, 120, 205,  90, 244,
      31, 221, 168,  51, 136,   7, 199,  49, 177,  18,  16,  89,  39, 128, 236,  95,
      96,  81, 127, 169,  25, 181,  74,  13,  45, 229, 122, 159, 147, 201, 156, 239,
     160, 224,  59,  77, 174,  42, 245, 176, 200, 235, 187,  60, 131,  83, 153,  97,
      23,  43,   4, 126, 186, 119, 214,  38, 225, 105,  20,  99,  85,  33,  12, 125 >>

RCON_TABLE ==
  << 0,   1,   2,   4,   8,  16,  32,  64, 128,  27,  54 >>

SBOX == [x \in 0..255 |-> SBOX_TABLE[x + 1]]

INV_SBOX == [x \in 0..255 |-> INV_SBOX_TABLE[x + 1]]

RCON == [x \in 0..(Len(RCON_TABLE) - 1) |-> RCON_TABLE[x + 1]]

(***************************************************************************)
(* galois_field: arithmetic in GF(2^8) modulo x^8 + x^4 + x^3 + x + 1.     *)
(***************************************************************************)
\* the eight iterations of gmul's loop; a is left unmasked, as in the source
RECURSIVE gmul_loop(_, _, _, _)
gmul_loop(a, b, p, n) ==
    IF n = 0 THEN p
    ELSE LET p1 == IF BitAnd(b, 1) # 0 THEN BitXor(p, a) ELSE p
             hi_bit_set == BitAnd(a, 128)
             a1 == a * 2
             a2 == IF hi_bit_set # 0 THEN BitXor(a1, 27) ELSE a1
         IN  gmul_loop(a2, b \div 2, p1, n - 1)

gmul(a, b) == BitAnd(gmul_loop(a, b, 0, 8), 255)

\* mutant: the doubled byte is not reduced by the polynomial
gmul_2_unreduced(x) == BitAnd(x * 2, 255)

gmul_2(x) == BitAnd(BitXor(x * 2, IF BitAnd(x, 128) # 0 THEN 27 ELSE 0), 255)

gmul_3(x) == BitXor(gmul_2(x), x)

\* gmul(x, c) for every byte x and the multipliers InvMixColumns uses, tabulated once
GmulTable == [c \in {9, 11, 13, 14} |-> [x \in 0..255 |-> gmul(x, c)]]

gmul_9(x) == GmulTable[9][x]

gmul_11(x) == GmulTable[11][x]

gmul_13(x) == GmulTable[13][x]

gmul_14(x) == GmulTable[14][x]

(***************************************************************************)
(* transformations: each takes the State and gives the State the source    *)
(* leaves behind after mutating it in place.                               *)
(***************************************************************************)
sub_bytes(st) == [i \in 1..4 |-> [j \in 1..4 |-> SBOX[st[i][j]]]]

\* mutant: the inverse substitution looks the byte up in the forward S-box
inv_sub_bytes_forward(st) == [i \in 1..4 |-> [j \in 1..4 |-> SBOX[st[i][j]]]]

inv_sub_bytes(st) == [i \in 1..4 |-> [j \in 1..4 |-> INV_SBOX[st[i][j]]]]

\* mutant: every row below the first is rotated by one
shift_rows_by_one(st) ==
    << st[1],
       Slice(st[2], 1, 4) \o Slice(st[2], 0, 1),
       Slice(st[3], 1, 4) \o Slice(st[3], 0, 1),
       Slice(st[4], 1, 4) \o Slice(st[4], 0, 1) >>

shift_rows(st) ==
    << st[1],
       Slice(st[2], 1, 4) \o Slice(st[2], 0, 1),
       Slice(st[3], 2, 4) \o Slice(st[3], 0, 2),
       Slice(st[4], 3, 4) \o Slice(st[4], 0, 3) >>

\* mutant: every row below the first is rotated right by one
inv_shift_rows_by_one(st) ==
    << st[1],
       Slice(st[2], 3, 4) \o Slice(st[2], 0, 3),
       Slice(st[3], 3, 4) \o Slice(st[3], 0, 3),
       Slice(st[4], 3, 4) \o Slice(st[4], 0, 3) >>

\* mutant: the inverse written with the forward rotations
inv_shift_rows_forward(st) ==
    << st[1],
       Slice(st[2], 1, 4) \o Slice(st[2], 0, 1),
       Slice(st[3], 2, 4) \o Slice(st[3], 0, 2),
       Slice(st[4], 3, 4) \o Slice(st[4], 0, 3) >>

inv_shift_rows(st) ==
    << st[1],
       Slice(st[2], 3, 4) \o Slice(st[2], 0, 3),
       Slice(st[3], 2, 4) \o Slice(st[3], 0, 2),
       Slice(st[4], 1, 4) \o Slice(st[4], 0, 1) >>

\* the column col = [state[j][i] for j in range(4)], read before any write
Column(st, i) == [j \in 1..4 |-> st[j][i]]

\* gmul_2(x) and gmul_3(x) for every byte x, tabulated once
Gmul23Table == [c \in {2, 3} |-> [x \in 0..255 |-> IF c = 2 THEN gmul_2(x) ELSE gmul_3(x)]]

\* mutant: the column is not copied, each entry is computed from the entries as they
\* are after the writes before it
mix_column_in_place(col) ==
    LET g2(x) == Gmul23Table[2][x]
        g3(x) == Gmul23Table[3][x]
        n1 == BitXor(BitXor(BitXor(g2(col[1]), g3(col[2])), col[3]), col[4])
        n2 == BitXor(BitXor(BitXor(n1, g2(col[2])), g3(col[3])), col[4])
        n3 == BitXor(BitXor(BitXor(n1, n2), g2(col[3])), g3(col[4]))
        n4 == BitXor(BitXor(BitXor(g3(n1), n2), n3), g2(col[4]))
    IN  << n1, n2, n3, n4 >>

\* the four new entries of one column under MixColumns
mix_column(col) ==
    LET g2(x) == Gmul23Table[2][x]
        g3(x) == Gmul23Table[3][x]
    IN  << BitXor(BitXor(BitXor(g2(col[1]), g3(col[2])), col[3]), col[4]),
           BitXor(BitXor(BitXor(col[1], g2(col[2])), g3(col[3])), col[4]),
           BitXor(BitXor(BitXor(col[1], col[2]), g2(col[3])), g3(col[4])),
           BitXor(BitXor(BitXor(g3(col[1]), col[2]), col[3]), g2(col[4])) >>

mix_columns(st) ==
    LET new == [i \in 1..4 |-> mix_column(Column(st, i))]
    IN  [r \in 1..4 |-> [c \in 1..4 |-> new[c][r]]]

\* the four new entries of one column under InvMixColumns
inv_mix_column(col) ==
    << BitXor(BitXor(BitXor(gmul_14(col[1]), gmul_11(col[2])), gmul_13(col[3])), gmul_9(col[4])),
       BitXor(BitXor(BitXor(gmul_9(col[1]), gmul_14(col[2])), gmul_11(col[3])), gmul_13(col[4])),
       BitXor(BitXor(BitXor(gmul_13(col[1]), gmul_9(col[2])), gmul_14(col[3])), gmul_11(col[4])),
       BitXor(BitXor(BitXor(gmul_11(col[1]), gmul_13(col[2])), gmul_9(col[3])), gmul_14(col[4])) >>

inv_mix_columns(st) ==
    LET new == [i \in 1..4 |-> inv_mix_column(Column(st, i))]
    IN  [r \in 1..4 |-> [c \in 1..4 |-> new[c][r]]]

\* mutant: the round key is indexed row by row
add_round_key_row_major(st, round_key) ==
    [i \in 1..4 |-> [j \in 1..4 |-> BitXor(st[i][j], round_key[4 * (i - 1) + (j - 1) + 1])]]

\* state[i][j] ^= round_key[i + 4 * j]
add_round_key(st, round_key) ==
    [i \in 1..4 |-> [j \in 1..4 |-> BitXor(st[i][j], round_key[(i - 1) + 4 * (j - 1) + 1])]]

(***************************************************************************)
(* key_expansion                                                           *)
(***************************************************************************)
\* mutant: the word is not rotated
rot_word_unrotated(word) == word

rot_word(word) == Slice(word, 1, Len(word)) \o Slice(word, 0, 1)

sub_word(word) == [k \in 1..Len(word) |-> SBOX[word[k]]]

\* mutant: the extra SubWord branch does not look at nk
temp_branch_any_nk(i, nk) ==
    IF i % nk = 0 THEN "rcon" ELSE IF i % nk = 4 THEN "sub_word" ELSE "none"

\* the branch of "if i % nk == 0: ... elif nk > 6 and i % nk == 4: ..." taken for i
temp_branch(i, nk) ==
    IF i % nk = 0 THEN "rcon" ELSE IF nk > 6 /\ i % nk = 4 THEN "sub_word" ELSE "none"

\* mutant: the round constant is left out
next_word_no_rcon(ek, i, nk) ==
    LET prev == Slice(ek, (i - 1) * 4, i * 4)
        temp == IF i % nk = 0
                THEN sub_word(rot_word(prev))
                ELSE IF nk > 6 /\ i % nk = 4
                     THEN sub_word(prev)
                     ELSE prev
        prev_word == Slice(ek, (i - nk) * 4, (i - nk + 1) * 4)
    IN  [j \in 1..4 |-> BitXor(prev_word[j], temp[j])]

\* the word appended for index i, given the schedule built so far
next_word(ek, i, nk) ==
    LET prev == Slice(ek, (i - 1) * 4, i * 4)
        temp == IF temp_branch(i, nk) = "rcon"
                THEN LET t == sub_word(rot_word(prev))
                     IN  [t EXCEPT ![1] = BitXor(t[1], RCON[i \div nk])]
                ELSE IF temp_branch(i, nk) = "sub_word"
                     THEN sub_word(prev)
                     ELSE prev
        prev_word == Slice(ek, (i - nk) * 4, (i - nk + 1) * 4)
    IN  [j \in 1..4 |-> BitXor(prev_word[j], temp[j])]

\* for i in range(nk, total_words)
RECURSIVE expand_loop(_, _, _, _)
expand_loop(ek, i, nk, total_words) ==
    IF i >= total_words THEN ek
    ELSE expand_loop(ek \o next_word(ek, i, nk), i + 1, nk, total_words)

\* the number of rounds expand_key derives from key_size (after validation)
rounds_of(ks) == IF ks = 128 THEN 10 ELSE IF ks = 192 THEN 12 ELSE 14

Ok(v) == [ok |-> TRUE, err |-> "", val |-> v]

Raise(kind) == [ok |-> FALSE, err |-> kind, val |-> << >>]

\* mutant: one round key too few (total_words = 4 * nr)
expand_key_short(key, ks) ==
    IF ks \notin {128, 192, 256} THEN Raise("InvalidKeySize")
    ELSE IF Len(key) # ks \div 8 THEN Raise("InvalidKeyLength")
    ELSE LET nk == Len(key) \div 4
             total_words == 4 * rounds_of(ks)
         IN  Ok(expand_loop(key, nk, nk, total_words))

expand_key(key, ks) ==
    IF ks \notin {128, 192, 256} THEN Raise("InvalidKeySize")
    ELSE IF Len(key) # ks \div 8 THEN Raise("InvalidKeyLength")
    ELSE LET nk == Len(key) \div 4
             total_words == 4 * (rounds_of(ks) + 1)
         IN  Ok(expand_loop(key, nk, nk, total_words))

get_round_key(ek, rn) == Slice(ek, rn * 16, rn * 16 + 16)

(***************************************************************************)
(* aes: conversions between blocks and States, and PKCS7 padding.          *)
(***************************************************************************)
\* mutant: only blocks that are too short are rejected
bytes_to_state_lax(block) ==
    IF Len(block) < 16 THEN Raise("InvalidBlockLength")
    ELSE Ok([i \in 1..4 |-> [j \in 1..4 |-> block[(i - 1) + 4 * (j - 1) + 1]]])

bytes_to_state(block) ==
    IF Len(block) # 16 THEN Raise("InvalidBlockLength")
    ELSE Ok([i \in 1..4 |-> [j \in 1..4 |-> block[(i - 1) + 4 * (j - 1) + 1]]])

state_to_bytes(st) == [k \in 1..16 |-> st[((k - 1) % 4) + 1][((k - 1) \div 4) + 1]]

\* mutant: the padding bytes are zeros
pad_zero_fill(data) ==
    LET padding_length == 16 - (Len(data) % 16)
    IN  data \o Repeat(0, padding_length)

\* mutant: nothing is appended to data that already fills its blocks
pad_no_full_block(data) ==
    LET padding_length == (16 - (Len(data) % 16)) % 16
    IN  data \o Repeat(padding_length, padding_length)

pad(data) ==
    LET padding_length == 16 - (Len(data) % 16)
    IN  data \o Repeat(padding_length, padding_length)

\* mutant: empty data is reported as invalid padding
unpad_empty_as_invalid(data) ==
    IF Len(data) = 0 THEN Raise("InvalidPadding")
    ELSE LET padding_length == data[Len(data)]
         IN  IF padding_length > 16 \/ padding_length = 0 THEN Raise("InvalidPadding")
             ELSE IF Len(data) < padding_length THEN Raise("InvalidPadding")
             ELSE IF \E i \in 0..(padding_length - 1) : data[Len(data) - i] # padding_length
                  THEN Raise("InvalidPadding")
                  ELSE Ok(Slice(data, 0, Len(data) - padding_length))

\* mutant: the trailing bytes are not compared with the padding length
unpad_unverified(data) ==
    IF Len(data) = 0 THEN Raise("EmptyInputUnpad")
    ELSE LET padding_length == data[Len(data)]
         IN  IF padding_length > 16 \/ padding_length = 0 THEN Raise("InvalidPadding")
             ELSE IF Len(data) < padding_length THEN Raise("InvalidPadding")
             ELSE Ok(Slice(data, 0, Len(data) - padding_length))

\* mutant: a whole block of padding is left in place
unpad_keep_full_block(data) ==
    IF Len(data) = 0 THEN Raise("EmptyInputUnpad")
    ELSE LET padding_length == data[Len(data)]
         IN  IF padding_length > 16 \/ padding_length = 0 THEN Raise("InvalidPadding")
             ELSE IF Len(data) < padding_length THEN Raise("InvalidPadding")
             ELSE IF \E i \in 0..(padding_length - 1) : data[Len(data) - i] # padding_length
                  THEN Raise("InvalidPadding")
                  ELSE Ok(Slice(data, 0, Len(data) - (padding_length % 16)))

\* the verification loop: for i in range(padding_length): data[-1 - i] != padding_length
unpad(data) ==
    IF Len(data) = 0 THEN Raise("EmptyInputUnpad")
    ELSE LET padding_length == data[Len(data)]
         IN  IF padding_length > 16 \/ padding_length = 0 THEN Raise("InvalidPadding")
             ELSE IF Len(data) < padding_length THEN Raise("InvalidPadding")
             ELSE IF \E i \in 0..(padding_length - 1) : data[Len(data) - i] # padding_length
                  THEN Raise("InvalidPadding")
                  ELSE Ok(Slice(data, 0, Len(data) - padding_length))

(***************************************************************************)
(* config: DEFAULT_CONFIG and the configuration sources the callers use.   *)
(***************************************************************************)
DEFAULT_CONFIG ==
    [key_size |-> 128, padding |-> TRUE, enable_logging |-> FALSE, logging_level |-> "INFO"]

\* load_config: None gives the defaults; a dictionary overrides some of them
load_config(cfg) ==
    IF cfg = "none" THEN DEFAULT_CONFIG
    ELSE IF cfg = "cfg256nopad" THEN [DEFAULT_CONFIG EXCEPT !.key_size = 256, !.padding = FALSE]
    ELSE IF cfg = "cfglogdebug"
    THEN [DEFAULT_CONFIG EXCEPT !.enable_logging = TRUE, !.logging_level = "DEBUG"]
    ELSE [DEFAULT_CONFIG EXCEPT !.enable_logging = TRUE, !.logging_level = "VERBOSE"]

\* logging.NOTSET, the level of a logger nobody has configured
NOTSET == 0

\* level_map in __init__, with the levels of the logging module
level_map == [DEBUG |-> 10, INFO |-> 20, WARNING |-> 30, ERROR |-> 40, CRITICAL |-> 50]

\* level_map.get(logging_level, logging.INFO)
log_level(logging_level) ==
    IF logging_level \in DOMAIN level_map THEN level_map[logging_level] ELSE level_map.INFO

\* self.nr = {128: 10, 192: 12, 256: 14}[key_size]
NrMap == [ks \in {128, 192, 256} |-> IF ks = 128 THEN 10 ELSE IF ks = 192 THEN 12 ELSE 14]

(***************************************************************************)
(* Bounds of the model and the inputs the callers draw from.               *)
(***************************************************************************)
\* the longest message handed to encrypt/decrypt as a fresh input
MaxDataLen == 17

\* how many times in a row a call may take the previous call's result as input
MaxChain == 1

\* the longest byte string handed to pad on its own
MaxPadLen == 33

\* longest byte string handed to unpad on its own
MaxUnpadLen == 18

\* number of concurrent callers of one shared cipher
NumCallers == 2

K128 == << 43, 126, 21, 22, 40, 174, 210, 166, 171, 247, 21, 136, 9, 207, 79, 60 >>

K192 == [k \in 1..24 |-> k - 1]

K256 == [k \in 1..32 |-> k - 1]

KShort == SubSeq(K128, 1, 10)

Keys == {K128, K192, K256, KShort}

\* key_size arguments; 0 stands for None
KeySizeArgs == {0, 64, 128, 192, 256}

\* None, or the dictionary {"key_size": 256, "padding": False}
Configs == {"none", "cfg256nopad"}

B1 == << 50, 67, 246, 168, 136, 90, 48, 141, 49, 49, 152, 162, 224, 55, 7, 52 >>

B2 == [k \in 1..16 |-> 17 * (k - 1)]

\* the FIPS-197 ciphertext of B1 under K128
CT1 == << 57, 37, 132, 29, 2, 220, 9, 251, 220, 17, 133, 151, 25, 106, 11, 50 >>

\* blocks handed to encrypt_block/decrypt_block, some of them not 16 bytes long
Blocks == {B1, B2, CT1, SubSeq(B1, 1, 10), B1 \o << 0 >>, << >>}

DataLens == {0, 1, 15, 16, MaxDataLen}

\* messages: one of mixed bytes and constant ones that end like PKCS7 padding
Mixed(L) == [k \in 1..L |-> (7 * k + 13 * L + 1) % 256]

Data == {Mixed(L) : L \in DataLens} \cup {Repeat(v, 16) : v \in {2, 16}}

\* the padding argument: "none" stands for None
PadArgs == {"none", "on", "off"}

(***************************************************************************)
(* Calls.  A call record holds the operation, its arguments, where its     *)
(* input came from and, once it has returned, its outcome.                 *)
(***************************************************************************)
NoCall ==
    [op |-> "none", arg |-> << >>, ks |-> 0, cfg |-> "none", log |-> "none", pad |-> "none",
     from_op |-> "none", from_arg |-> << >>, from_pad |-> "none", depth |-> 0,
     after |-> "", ok |-> FALSE, err |-> "", val |-> << >>]

\* a call on a fresh input
Fresh(op, arg, padarg) == [NoCall EXCEPT !.op = op, !.arg = arg, !.pad = padarg]

\* a call on the value the last call returned
Chained(op, padarg) ==
    [NoCall EXCEPT !.op = op, !.arg = last.val, !.pad = padarg,
                   !.from_op = last.op, !.from_arg = last.arg, !.from_pad = last.pad,
                   !.depth = last.depth + 1]

\* a call on a fresh input that remembers the error of the call before it, if that failed
AfterLast(op, arg, padarg) ==
    [Fresh(op, arg, padarg) EXCEPT
        !.after = IF last.op \notin {"none", "construct"} /\ ~last.ok THEN last.err ELSE ""]

CanChain(prev_op) ==
    /\ last.op = prev_op
    /\ last.ok
    /\ last.depth < MaxChain
    /\ Len(last.val) <= MaxDataLen + 16

Returned(c, res) == [c EXCEPT !.ok = res.ok, !.err = res.err, !.val = res.val]

\* mutant: the cipher's default is used whatever the call passes
use_padding_default_only(padarg) == default_padding

\* if padding is None: padding = self._default_padding
use_padding(padarg) == IF padarg = "none" THEN default_padding ELSE padarg = "on"

cipher_vars == << built, raw_key, key_size, nr, expanded_key, default_padding >>

loop_vars == << buf, idx, out >>

Init ==
    /\ built = FALSE
    /\ raw_key = << >>
    /\ key_size = 0
    /\ nr = 0
    /\ expanded_key = << >>
    /\ default_padding = TRUE
    /\ pc = "new"
    /\ cur = NoCall
    /\ buf = << >>
    /\ idx = 0
    /\ out = << >>
    /\ state = << >>
    /\ round_num = 0
    /\ ops = << >>
    /\ nblocks = 0
    /\ last = NoCall
    /\ logger_level = NOTSET

(***************************************************************************)
(* AES.__init__                                                            *)
(***************************************************************************)
\* if key_size is None: key_size = self.config.key_size
effective_key_size(ks_arg, cfg) == IF ks_arg = 0 THEN load_config(cfg).key_size ELSE ks_arg

\* mutant: an unset key size is taken from the length of the key
init_result_size_from_key(key_arg, ks_arg, cfg) ==
    LET ks == IF ks_arg = 0 THEN 8 * Len(key_arg) ELSE ks_arg
    IN  IF ks \notin {128, 192, 256} THEN Raise("InvalidKeySize")
        ELSE IF Len(key_arg) # ks \div 8 THEN Raise("InvalidKeyLength")
        ELSE expand_key(key_arg, ks)

\* mutant: the key length is validated before the key size
init_result_length_first(key_arg, ks_arg, cfg) ==
    LET ks == effective_key_size(ks_arg, cfg)
    IN  IF Len(key_arg) # ks \div 8 THEN Raise("InvalidKeyLength")
        ELSE IF ks \notin {128, 192, 256} THEN Raise("InvalidKeySize")
        ELSE expand_key(key_arg, ks)

\* the outcome of __init__: the schedule, or the error of the first failing validation
init_result(key_arg, ks_arg, cfg) ==
    LET ks == effective_key_size(ks_arg, cfg)
    IN  IF ks \notin {128, 192, 256} THEN Raise("InvalidKeySize")
        ELSE IF Len(key_arg) # ks \div 8 THEN Raise("InvalidKeyLength")
        ELSE expand_key(key_arg, ks)

\* if enable_logging is None: enable_logging = self.config.enable_logging
effective_logging(log_arg, cfg) ==
    IF log_arg = "none" THEN load_config(cfg).enable_logging ELSE log_arg = "on"

\* if enable_logging: self.logger.setLevel(log_level); done before the key is validated
logger_after(log_arg, cfg) ==
    IF effective_logging(log_arg, cfg) THEN log_level(load_config(cfg).logging_level)
    ELSE logger_level

\* The model follows one cipher object at a time.  Constructing another one after
\* calls were made starts over from the states reached by constructing it first, so
\* the callers construct before their first call.
Construct(key_arg, ks_arg, cfg, log_arg) ==
    /\ pc = "new" \/ (pc = "idle" /\ last.op = "construct")
    /\ LET config == load_config(cfg)
           ks == effective_key_size(ks_arg, cfg)
           res == init_result(key_arg, ks_arg, cfg)
           call == [NoCall EXCEPT !.op = "construct", !.arg = key_arg, !.ks = ks_arg,
                                  !.cfg = cfg, !.log = log_arg]
       IN  /\ logger_level' = logger_after(log_arg, cfg)
           /\ IF res.ok
              THEN /\ built' = TRUE
                   /\ raw_key' = key_arg
                   /\ key_size' = ks
                   /\ nr' = NrMap[ks]
                   /\ expanded_key' = res.val
                   /\ default_padding' = config.padding
                   /\ pc' = "idle"
              ELSE UNCHANGED << cipher_vars, pc >>
           /\ last' = [call EXCEPT !.ok = res.ok, !.err = res.err]
    /\ cur' = NoCall
    /\ ops' = << >>
    /\ nblocks' = 0
    /\ UNCHANGED << loop_vars, state, round_num >>

(***************************************************************************)
(* Returning from a top-level call, and the steps of one block operation.  *)
(* The locals of a call (buf, idx, out, state, round_num) die with it; ops *)
(* and nblocks keep what the call did until the next call starts.          *)
(***************************************************************************)
\* the i-th 16-byte chunk of data, counted from 0
Chunk(data, i) == Slice(data, 16 * i, 16 * i + 16)

\* block = data[i : i + 16]
next_block(data, i) == Slice(data, i, i + 16)

\* mutant: each result is put in front of the results so far
append_block_in_front(acc, block) == block \o acc

\* ciphertext += self.encrypt_block(block) / plaintext += self.decrypt_block(block)
append_block(acc, block) == acc \o block

\* the call returns res (a value or an error) to its caller
Return(call, res) ==
    /\ last' = Returned(call, res)
    /\ cur' = NoCall
    /\ pc' = "idle"
    /\ buf' = << >>
    /\ idx' = 0
    /\ out' = << >>
    /\ state' = << >>
    /\ round_num' = 0

\* entry of a block operation, the n+1st of the call: state = self._bytes_to_state(block)
EnterBlock(call, block, n, first_pc) ==
    LET res == bytes_to_state(block)
    IN  IF res.ok
        THEN /\ state' = res.val
             /\ ops' = << >>
             /\ nblocks' = n + 1
             /\ round_num' = 0
             /\ pc' = first_pc
             /\ cur' = call
             /\ last' = IF n = 0 THEN NoCall ELSE last
        ELSE /\ last' = Returned(call, res)
             /\ cur' = NoCall
             /\ pc' = "idle"
             /\ state' = << >>
             /\ ops' = << >>
             /\ nblocks' = n
             /\ round_num' = 0

\* one transformation of the pipeline: the State changes and the step is logged
Apply(name, new_state, k, rn, next_pc) ==
    /\ state' = new_state
    /\ ops' = Append(ops, << name, k >>)
    /\ round_num' = rn
    /\ pc' = next_pc
    /\ UNCHANGED << cipher_vars, logger_level, cur, loop_vars, nblocks, last >>

(***************************************************************************)
(* AES.encrypt_block                                                       *)
(***************************************************************************)
EncryptBlockCall(call) ==
    /\ pc = "idle"
    /\ EnterBlock(call, call.arg, 0, "eb_initial")
    /\ UNCHANGED << cipher_vars, logger_level, loop_vars >>

\* mutant: the round loop also runs for round_num = self.nr
eb_loop_through_final(rn) == IF rn <= nr THEN "eb_sub_bytes" ELSE "eb_final_sub_bytes"

\* where the round loop "for round_num in range(1, self.nr)" goes with rn next
eb_loop(rn) == IF rn < nr THEN "eb_sub_bytes" ELSE "eb_final_sub_bytes"

EB_Initial ==
    /\ pc = "eb_initial"
    /\ Apply("AddRoundKey", add_round_key(state, get_round_key(expanded_key, 0)), 0,
             1, eb_loop(1))

EB_SubBytes ==
    /\ pc = "eb_sub_bytes"
    /\ Apply("SubBytes", sub_bytes(state), round_num, round_num, "eb_shift_rows")

EB_ShiftRows ==
    /\ pc = "eb_shift_rows"
    /\ Apply("ShiftRows", shift_rows(state), round_num, round_num, "eb_mix_columns")

EB_MixColumns ==
    /\ pc = "eb_mix_columns"
    /\ Apply("MixColumns", mix_columns(state), round_num, round_num, "eb_add_round_key")

EB_AddRoundKey ==
    /\ pc = "eb_add_round_key"
    /\ Apply("AddRoundKey", add_round_key(state, get_round_key(expanded_key, round_num)),
             round_num, round_num + 1, eb_loop(round_num + 1))

EB_FinalSubBytes ==
    /\ pc = "eb_final_sub_bytes"
    /\ Apply("SubBytes", sub_bytes(state), nr, round_num, "eb_final_shift_rows")

EB_FinalShiftRows ==
    /\ pc = "eb_final_shift_rows"
    /\ Apply("ShiftRows", shift_rows(state), nr, round_num, "eb_final_add_round_key")

EB_FinalAddRoundKey ==
    /\ pc = "eb_final_add_round_key"
    /\ Apply("AddRoundKey", add_round_key(state, get_round_key(expanded_key, nr)), nr,
             round_num, "eb_return")

\* ciphertext = self._state_to_bytes(state); return to the caller or to encrypt's loop
EB_Return ==
    /\ pc = "eb_return"
    /\ LET ciphertext == state_to_bytes(state)
       IN  IF cur.op = "encrypt_block"
           THEN Return(cur, Ok(ciphertext))
           ELSE /\ out' = append_block(out, ciphertext)
                /\ idx' = idx + 16
                /\ pc' = "enc_loop"
                /\ state' = << >>
                /\ round_num' = 0
                /\ UNCHANGED << cur, buf, last >>
    /\ UNCHANGED << cipher_vars, logger_level, ops, nblocks >>

(***************************************************************************)
(* AES.decrypt_block                                                       *)
(***************************************************************************)
DecryptBlockCall(call) ==
    /\ pc = "idle"
    /\ EnterBlock(call, call.arg, 0, "db_initial")
    /\ UNCHANGED << cipher_vars, logger_level, loop_vars >>

\* where the round loop "for round_num in range(self.nr - 1, 0, -1)" goes with rn next
\* mutant: the round loop stops before round 1
db_loop_stops_early(rn) == IF rn > 1 THEN "db_inv_shift_rows" ELSE "db_final_inv_shift_rows"

db_loop(rn) == IF rn > 0 THEN "db_inv_shift_rows" ELSE "db_final_inv_shift_rows"

DB_Initial ==
    /\ pc = "db_initial"
    /\ Apply("AddRoundKey", add_round_key(state, get_round_key(expanded_key, nr)), nr,
             nr - 1, db_loop(nr - 1))

DB_InvShiftRows ==
    /\ pc = "db_inv_shift_rows"
    /\ Apply("InvShiftRows", inv_shift_rows(state), round_num, round_num, "db_inv_sub_bytes")

DB_InvSubBytes ==
    /\ pc = "db_inv_sub_bytes"
    /\ Apply("InvSubBytes", inv_sub_bytes(state), round_num, round_num, "db_add_round_key")

DB_AddRoundKey ==
    /\ pc = "db_add_round_key"
    /\ Apply("AddRoundKey", add_round_key(state, get_round_key(expanded_key, round_num)),
             round_num, round_num, "db_inv_mix_columns")

DB_InvMixColumns ==
    /\ pc = "db_inv_mix_columns"
    /\ Apply("InvMixColumns", inv_mix_columns(state), round_num, round_num - 1,
             db_loop(round_num - 1))

DB_FinalInvShiftRows ==
    /\ pc = "db_final_inv_shift_rows"
    /\ Apply("InvShiftRows", inv_shift_rows(state), 0, round_num, "db_final_inv_sub_bytes")

DB_FinalInvSubBytes ==
    /\ pc = "db_final_inv_sub_bytes"
    /\ Apply("InvSubBytes", inv_sub_bytes(state), 0, round_num, "db_final_add_round_key")

DB_FinalAddRoundKey ==
    /\ pc = "db_final_add_round_key"
    /\ Apply("AddRoundKey", add_round_key(state, get_round_key(expanded_key, 0)), 0,
             round_num, "db_return")

\* plaintext = self._state_to_bytes(state); return to the caller or to decrypt's loop
DB_Return ==
    /\ pc = "db_return"
    /\ LET plaintext == state_to_bytes(state)
       IN  IF cur.op = "decrypt_block"
           THEN Return(cur, Ok(plaintext))
           ELSE /\ out' = append_block(out, plaintext)
                /\ idx' = idx + 16
                /\ pc' = "dec_loop"
                /\ state' = << >>
                /\ round_num' = 0
                /\ UNCHANGED << cur, buf, last >>
    /\ UNCHANGED << cipher_vars, logger_level, ops, nblocks >>

(***************************************************************************)
(* AES.encrypt                                                             *)
(***************************************************************************)
\* mutant: the length is not checked when padding is disabled
encrypt_input_unchecked(data, padding) == IF padding THEN Ok(pad(data)) ELSE Ok(data)

\* what encrypt does before its block loop: the bytes to encrypt, or the error
encrypt_input(data, padding) ==
    IF padding THEN Ok(pad(data))
    ELSE IF Len(data) % 16 # 0 THEN Raise("InvalidPlaintextLength")
    ELSE Ok(data)

\* mutant: the padding flag of the call becomes the cipher's default
EncryptCall_keeps_flag(call) ==
    /\ pc = "idle"
    /\ LET res == encrypt_input(call.arg, use_padding(call.pad))
       IN  IF res.ok
           THEN /\ buf' = res.val
                /\ pc' = "enc_loop"
                /\ cur' = call
                /\ last' = NoCall
           ELSE /\ last' = Returned(call, res)
                /\ pc' = "idle"
                /\ cur' = NoCall
                /\ buf' = << >>
    /\ idx' = 0
    /\ out' = << >>
    /\ ops' = << >>
    /\ nblocks' = 0
    /\ default_padding' = use_padding(call.pad)
    /\ UNCHANGED << built, raw_key, key_size, nr, expanded_key, logger_level, state, round_num >>

EncryptCall(call) ==
    /\ pc = "idle"
    /\ LET res == encrypt_input(call.arg, use_padding(call.pad))
       IN  IF res.ok
           THEN /\ buf' = res.val
                /\ pc' = "enc_loop"
                /\ cur' = call
                /\ last' = NoCall
           ELSE /\ last' = Returned(call, res)
                /\ pc' = "idle"
                /\ cur' = NoCall
                /\ buf' = << >>
    /\ idx' = 0
    /\ out' = << >>
    /\ ops' = << >>
    /\ nblocks' = 0
    /\ UNCHANGED << cipher_vars, logger_level, state, round_num >>

\* for i in range(0, len(plaintext), 16): ciphertext += self.encrypt_block(block)
EncLoop ==
    /\ pc = "enc_loop"
    /\ IF idx < Len(buf)
       THEN /\ EnterBlock(cur, next_block(buf, idx), nblocks, "eb_initial")
            /\ UNCHANGED << loop_vars >>
       ELSE /\ Return(cur, Ok(out))
            /\ UNCHANGED << ops, nblocks >>
    /\ UNCHANGED << cipher_vars, logger_level >>

(***************************************************************************)
(* AES.decrypt                                                             *)
(***************************************************************************)
\* mutant: the length is not checked
decrypt_input_unchecked(data) == Ok(data)

\* what decrypt does before its block loop: the bytes to decrypt, or the error
decrypt_input(data) ==
    IF Len(data) % 16 # 0 THEN Raise("InvalidCiphertextLength")
    ELSE Ok(data)

DecryptCall(call) ==
    /\ pc = "idle"
    /\ LET res == decrypt_input(call.arg)
       IN  IF res.ok
           THEN /\ buf' = res.val
                /\ pc' = "dec_loop"
                /\ cur' = call
                /\ last' = NoCall
           ELSE /\ last' = Returned(call, res)
                /\ pc' = "idle"
                /\ cur' = NoCall
                /\ buf' = << >>
    /\ idx' = 0
    /\ out' = << >>
    /\ ops' = << >>
    /\ nblocks' = 0
    /\ UNCHANGED << cipher_vars, logger_level, state, round_num >>

\* mutant: the padding is removed whatever the flag says
decrypt_output_always_unpad(plaintext, padding) == unpad(plaintext)

\* mutant: an empty plaintext is returned as it is
decrypt_output_empty_kept(plaintext, padding) ==
    IF padding /\ plaintext # << >> THEN unpad(plaintext) ELSE Ok(plaintext)

\* what decrypt does after its block loop: if padding: plaintext = self._unpad(plaintext)
decrypt_output(plaintext, padding) == IF padding THEN unpad(plaintext) ELSE Ok(plaintext)

\* for i in range(0, len(ciphertext), 16): plaintext += self.decrypt_block(block)
DecLoop ==
    /\ pc = "dec_loop"
    /\ IF idx < Len(buf)
       THEN /\ EnterBlock(cur, next_block(buf, idx), nblocks, "db_initial")
            /\ UNCHANGED << loop_vars >>
       ELSE /\ Return(cur, decrypt_output(out, use_padding(cur.pad)))
            /\ UNCHANGED << ops, nblocks >>
    /\ UNCHANGED << cipher_vars, logger_level >>

(***************************************************************************)
(* The block operations as functions of the cipher and the block: what one *)
(* call returns when it runs from entry to return with nothing else        *)
(* touching its State.  Each round is computed on the State the round      *)
(* before left (the bound variable next), as the source's loop does.       *)
(***************************************************************************)
\* a State holds sixteen integers (State = List[List[int]])
StateOf(st) ==
    << << st[1][1], st[1][2], st[1][3], st[1][4] >>,
       << st[2][1], st[2][2], st[2][3], st[2][4] >>,
       << st[3][1], st[3][2], st[3][3], st[3][4] >>,
       << st[4][1], st[4][2], st[4][3], st[4][4] >> >>

RECURSIVE encrypt_rounds(_, _)
\* for round_num in range(rn, self.nr): SubBytes, ShiftRows, MixColumns, AddRoundKey
encrypt_rounds(st, rn) ==
    IF rn < nr
    THEN LET after == StateOf(add_round_key(mix_columns(shift_rows(sub_bytes(st))),
                                            get_round_key(expanded_key, rn)))
         IN  CHOOSE res \in {encrypt_rounds(next, rn + 1) : next \in {after}} : TRUE
    ELSE st

encrypt_block(plaintext) ==
    LET entry == bytes_to_state(plaintext)
    IN  IF ~entry.ok THEN entry
        ELSE LET initial == StateOf(add_round_key(entry.val, get_round_key(expanded_key, 0)))
                 main    == encrypt_rounds(initial, 1)
                 final   == StateOf(add_round_key(shift_rows(sub_bytes(main)),
                                                  get_round_key(expanded_key, nr)))
             IN  Ok(state_to_bytes(final))

RECURSIVE decrypt_rounds(_, _)
\* for round_num in range(rn, 0, -1): InvShiftRows, InvSubBytes, AddRoundKey, InvMixColumns
decrypt_rounds(st, rn) ==
    IF rn > 0
    THEN LET after == StateOf(inv_mix_columns(
                          add_round_key(inv_sub_bytes(inv_shift_rows(st)),
                                        get_round_key(expanded_key, rn))))
         IN  CHOOSE res \in {decrypt_rounds(next, rn - 1) : next \in {after}} : TRUE
    ELSE st

decrypt_block(ciphertext) ==
    LET entry == bytes_to_state(ciphertext)
    IN  IF ~entry.ok THEN entry
        ELSE LET initial == StateOf(add_round_key(entry.val, get_round_key(expanded_key, nr)))
                 main    == decrypt_rounds(initial, nr - 1)
                 final   == StateOf(add_round_key(inv_sub_bytes(inv_shift_rows(main)),
                                                  get_round_key(expanded_key, 0)))
             IN  Ok(state_to_bytes(final))

RECURSIVE encrypt_loop(_, _, _)
\* for i in range(i, len(plaintext), 16): ciphertext += self.encrypt_block(block)
encrypt_loop(plaintext, i, ciphertext) ==
    IF i < Len(plaintext)
    THEN CHOOSE res \in
             {encrypt_loop(plaintext, i + 16, next) :
                  next \in {append_block(ciphertext, encrypt_block(next_block(plaintext, i)).val)}} :
             TRUE
    ELSE ciphertext

\* encrypt with the padding flag already resolved
encrypt(plaintext, padding) ==
    LET input == encrypt_input(plaintext, padding)
    IN  IF ~input.ok THEN input ELSE Ok(encrypt_loop(input.val, 0, << >>))

RECURSIVE decrypt_loop(_, _, _)
\* for i in range(i, len(ciphertext), 16): plaintext += self.decrypt_block(block)
decrypt_loop(ciphertext, i, plaintext) ==
    IF i < Len(ciphertext)
    THEN CHOOSE res \in
             {decrypt_loop(ciphertext, i + 16, next) :
                  next \in {append_block(plaintext, decrypt_block(next_block(ciphertext, i)).val)}} :
             TRUE
    ELSE plaintext

\* decrypt with the padding flag already resolved
decrypt(ciphertext, padding) ==
    LET input == decrypt_input(ciphertext)
    IN  IF ~input.ok THEN input
        ELSE decrypt_output(decrypt_loop(input.val, 0, << >>), padding)

(***************************************************************************)
(* The callers: what they construct and what they call with.               *)
(***************************************************************************)
DoConstruct ==
    \E key \in Keys, ks_arg \in KeySizeArgs, cfg \in Configs : Construct(key, ks_arg, cfg, "none")

DoEncryptBlock ==
    \/ \E b \in Blocks : EncryptBlockCall(Fresh("encrypt_block", b, "none"))
    \/ CanChain("decrypt_block") /\ EncryptBlockCall(Chained("encrypt_block", "none"))

DoDecryptBlock ==
    \/ \E b \in Blocks : DecryptBlockCall(Fresh("decrypt_block", b, "none"))
    \/ CanChain("encrypt_block") /\ DecryptBlockCall(Chained("decrypt_block", "none"))

DoEncrypt ==
    \/ \E d \in Data, p \in PadArgs : EncryptCall(Fresh("encrypt", d, p))
    \/ \E p \in PadArgs : CanChain("decrypt") /\ EncryptCall(Chained("encrypt", p))

DoDecrypt ==
    \/ \E d \in Data, p \in PadArgs : DecryptCall(Fresh("decrypt", d, p))
    \/ \E p \in PadArgs : CanChain("encrypt") /\ DecryptCall(Chained("decrypt", p))

Next ==
    \/ DoConstruct
    \/ DoEncryptBlock
    \/ DoDecryptBlock
    \/ DoEncrypt
    \/ DoDecrypt
    \/ EB_Initial
    \/ EB_SubBytes
    \/ EB_ShiftRows
    \/ EB_MixColumns
    \/ EB_AddRoundKey
    \/ EB_FinalSubBytes
    \/ EB_FinalShiftRows
    \/ EB_FinalAddRoundKey
    \/ EB_Return
    \/ DB_Initial
    \/ DB_InvShiftRows
    \/ DB_InvSubBytes
    \/ DB_AddRoundKey
    \/ DB_InvMixColumns
    \/ DB_FinalInvShiftRows
    \/ DB_FinalInvSubBytes
    \/ DB_FinalAddRoundKey
    \/ DB_Return
    \/ EncLoop
    \/ DecLoop

Spec == Init /\ [][Next]_vars

(***************************************************************************)
(* Padding on its own: pad applied to byte strings of every length up to   *)
(* MaxPadLen, unpad applied to byte strings of every length up to          *)
(* MaxUnpadLen with well formed and malformed tails, and unpad applied to  *)
(* what pad returned.                                                      *)
(***************************************************************************)
PadInputs == {Mixed(L) : L \in 0..MaxPadLen} \cup {Repeat(16, L) : L \in 0..MaxPadLen}

\* L bytes whose last m bytes are n and whose other bytes differ from n
TailOf(L, n, m) == [k \in 1..L |-> IF k > L - m THEN n ELSE (n + 1 + (k % 7)) % 256]

\* the last bytes n tried as padding lengths: zero, in range, just out of range and
\* the largest byte
UnpadInputs ==
    {TailOf(L, n, m) : L \in 1..MaxUnpadLen, n \in {0, 1, 2, 3, 15, 16, 17, 255},
                       m \in 1..MaxUnpadLen}

InitPad ==
    /\ built = FALSE
    /\ raw_key = << >>
    /\ key_size = 0
    /\ nr = 0
    /\ expanded_key = << >>
    /\ default_padding = TRUE
    /\ pc = "pad_input"
    /\ cur = NoCall
    /\ buf \in PadInputs \cup UnpadInputs
    /\ idx = 0
    /\ out = << >>
    /\ state = << >>
    /\ round_num = 0
    /\ ops = << >>
    /\ nblocks = 0
    /\ last = NoCall
    /\ logger_level = NOTSET

\* out = self._pad(buf)
PadApply ==
    /\ pc = "pad_input"
    /\ out' = pad(buf)
    /\ pc' = "padded"
    /\ UNCHANGED << cipher_vars, logger_level, cur, buf, idx, state, round_num, ops, nblocks, last >>

\* last = self._unpad(buf)
UnpadApply ==
    /\ pc = "pad_input"
    /\ last' = Returned(Fresh("unpad", buf, "none"), unpad(buf))
    /\ pc' = "unpadded"
    /\ UNCHANGED << cipher_vars, logger_level, cur, buf, idx, out, state, round_num, ops, nblocks >>

\* last = self._unpad(self._pad(buf))
UnpadPadded ==
    /\ pc = "padded"
    /\ last' = Returned(Fresh("unpad", out, "none"), unpad(out))
    /\ pc' = "round_trip"
    /\ UNCHANGED << cipher_vars, logger_level, cur, buf, idx, out, state, round_num, ops, nblocks >>

NextPad == PadApply \/ UnpadApply \/ UnpadPadded

SpecPad == InitPad /\ [][NextPad]_vars

(***************************************************************************)
(* The transformations on their own: SubBytes, ShiftRows, MixColumns and   *)
(* AddRoundKey applied to a State, and then the transformation that undoes *)
(* each.  The States are the ones of the tests, the 128 States with one    *)
(* bit set and sixteen States that hold every byte 0..255 between them:    *)
(* ShiftRows, MixColumns and AddRoundKey are linear (affine, for           *)
(* AddRoundKey) over GF(2), so what holds for the first two sets holds for *)
(* every State, and SubBytes maps every entry on its own, so what holds    *)
(* for every byte holds for every State.  Here buf is the State before,    *)
(* out the round key and ops the transformations applied.                  *)
(***************************************************************************)
\* the State with bit b of the entry at row i, column j set and nothing else
UnitState(i, j, b) == [r \in 1..4 |-> [c \in 1..4 |-> IF r = i /\ c = j THEN 2 ^ b ELSE 0]]

TestStates ==
    { << << 25, 160, 154, 233 >>, << 61, 244, 198, 248 >>,
         << 227, 226, 141, 72 >>, << 190, 43, 42, 8 >> >>,
      << << 219, 19, 83, 69 >>, << 242, 10, 34, 92 >>,
         << 1, 1, 1, 1 >>, << 198, 198, 198, 198 >> >>,
      << << 1, 2, 3, 4 >>, << 5, 6, 7, 8 >>, << 9, 10, 11, 12 >>, << 13, 14, 15, 16 >> >>,
      << << 0, 0, 0, 0 >>, << 0, 0, 0, 0 >>, << 0, 0, 0, 0 >>, << 0, 0, 0, 0 >> >>,
      << << 255, 254, 253, 252 >>, << 251, 250, 249, 248 >>,
         << 247, 246, 245, 244 >>, << 243, 242, 241, 240 >> >> }

XfStates ==
    TestStates
        \cup {StateOf(UnitState(i, j, b)) : i \in 1..4, j \in 1..4, b \in 0..7}
        \cup {StateOf([r \in 1..4 |-> [c \in 1..4 |-> 16 * k + 4 * (r - 1) + (c - 1)]]) :
                 k \in 0..15}

InitXf ==
    /\ built = FALSE
    /\ raw_key = << >>
    /\ key_size = 0
    /\ nr = 0
    /\ expanded_key = << >>
    /\ default_padding = TRUE
    /\ pc = "xf_input"
    /\ cur = NoCall
    /\ state \in XfStates
    /\ buf = state
    /\ out \in {K128, Repeat(255, 16)}
    /\ idx = 0
    /\ round_num = 0
    /\ ops = << >>
    /\ nblocks = 0
    /\ last = NoCall
    /\ logger_level = NOTSET

\* one transformation applied to the State; it comes after the ones in before
XfApply(name, before, new_state) ==
    /\ ops = before
    /\ pc = IF before = << >> THEN "xf_input" ELSE "xf_once"
    /\ state' = StateOf(new_state)
    /\ ops' = Append(ops, name)
    /\ pc' = IF before = << >> THEN "xf_once" ELSE "xf_twice"
    /\ UNCHANGED << cipher_vars, logger_level, cur, buf, idx, out, round_num, nblocks, last >>

XfSubBytes == XfApply("SubBytes", << >>, sub_bytes(state))

XfInvSubBytes == XfApply("InvSubBytes", << "SubBytes" >>, inv_sub_bytes(state))

XfShiftRows == XfApply("ShiftRows", << >>, shift_rows(state))

XfInvShiftRows == XfApply("InvShiftRows", << "ShiftRows" >>, inv_shift_rows(state))

XfMixColumns == XfApply("MixColumns", << >>, mix_columns(state))

XfInvMixColumns == XfApply("InvMixColumns", << "MixColumns" >>, inv_mix_columns(state))

XfAddRoundKey == XfApply("AddRoundKey", << >>, add_round_key(state, out))

XfAddRoundKeyAgain == XfApply("AddRoundKey", << "AddRoundKey" >>, add_round_key(state, out))

NextXf ==
    \/ XfSubBytes
    \/ XfInvSubBytes
    \/ XfShiftRows
    \/ XfInvShiftRows
    \/ XfMixColumns
    \/ XfInvMixColumns
    \/ XfAddRoundKey
    \/ XfAddRoundKeyAgain

SpecXf == InitXf /\ [][NextXf]_vars

(***************************************************************************)
(* The key expansion on its own, one iteration of expand_key's loop per    *)
(* step, for keys of the three valid sizes.  Here raw_key is the key,      *)
(* key_size and nr are expand_key's key_size and nr, buf is the list       *)
(* expanded_key as built so far, idx the loop variable i, and ops the      *)
(* branch each iteration took with the index i // nk (the index of RCON    *)
(* the "rcon" branch reads).                                               *)
(***************************************************************************)
InitKx ==
    /\ built = FALSE
    /\ raw_key \in {K128, K192, K256, Repeat(0, 16), Repeat(255, 24), Repeat(170, 32)}
    /\ key_size = 8 * Len(raw_key)
    /\ nr = rounds_of(key_size)
    /\ expanded_key = << >>
    /\ default_padding = TRUE
    /\ pc = "kx_loop"
    /\ cur = NoCall
    /\ buf = raw_key
    /\ idx = Len(raw_key) \div 4
    /\ out = << >>
    /\ state = << >>
    /\ round_num = 0
    /\ ops = << >>
    /\ nblocks = 0
    /\ last = NoCall
    /\ logger_level = NOTSET

\* one iteration of "for i in range(nk, total_words)"
KxStep ==
    LET nk == Len(raw_key) \div 4
        total_words == 4 * (nr + 1)
    IN  /\ pc = "kx_loop"
        /\ idx < total_words
        /\ buf' = buf \o next_word(buf, idx, nk)
        /\ ops' = Append(ops, << temp_branch(idx, nk), idx \div nk >>)
        /\ idx' = idx + 1
        /\ UNCHANGED << cipher_vars, logger_level, pc, cur, out, state, round_num, nblocks,
                        last >>

SpecKx == InitKx /\ [][KxStep]_vars

(***************************************************************************)
(* The multipliers on their own: each specialised multiplier applied to    *)
(* every byte.  Here idx is the byte x, round_num the multiplier the       *)
(* function is named after and out the value it returns.                   *)
(***************************************************************************)
InitGf ==
    /\ built = FALSE
    /\ raw_key = << >>
    /\ key_size = 0
    /\ nr = 0
    /\ expanded_key = << >>
    /\ default_padding = TRUE
    /\ pc = "gf_input"
    /\ cur = NoCall
    /\ buf = << >>
    /\ idx \in 0..255
    /\ out = 0
    /\ state = << >>
    /\ round_num \in {2, 3, 9, 11, 13, 14}
    /\ ops = << >>
    /\ nblocks = 0
    /\ last = NoCall
    /\ logger_level = NOTSET

\* one call of gmul_2, gmul_3, gmul_9, gmul_11, gmul_13 or gmul_14
GfApply ==
    /\ pc = "gf_input"
    /\ out' = CASE round_num = 2 -> gmul_2(idx)
                [] round_num = 3 -> gmul_3(idx)
                [] round_num = 9 -> gmul_9(idx)
                [] round_num = 11 -> gmul_11(idx)
                [] round_num = 13 -> gmul_13(idx)
                [] round_num = 14 -> gmul_14(idx)
    /\ pc' = "gf_done"
    /\ UNCHANGED << cipher_vars, logger_level, cur, buf, idx, state, round_num, ops,
                    nblocks, last >>

SpecGf == InitGf /\ [][GfApply]_vars

(***************************************************************************)
(* Constructions in one process: ciphers constructed one after the other,  *)
(* with and without logging, all holding the one logger named "aesfs".     *)
(***************************************************************************)
\* a fresh process: nobody configured the logger, or setup_logger() set it up
InitLog ==
    /\ built = FALSE
    /\ raw_key = << >>
    /\ key_size = 0
    /\ nr = 0
    /\ expanded_key = << >>
    /\ default_padding = TRUE
    /\ pc = "new"
    /\ cur = NoCall
    /\ buf = << >>
    /\ idx = 0
    /\ out = << >>
    /\ state = << >>
    /\ round_num = 0
    /\ ops = << >>
    /\ nblocks = 0
    /\ last = NoCall
    /\ logger_level \in {NOTSET, level_map.WARNING}

\* the enable_logging argument log_arg: "none" stands for None
LogConstruct ==
    \E key \in {K128, KShort}, ks_arg \in {0, 128},
       cfg \in {"none", "cfglogdebug", "cfglogverbose"}, log_arg \in {"none", "on", "off"} :
        Construct(key, ks_arg, cfg, log_arg)

NextLog == LogConstruct

SpecLog == InitLog /\ [][NextLog]_vars

(***************************************************************************)
(* Calls after calls: one cipher, and valid and invalid calls in every     *)
(* order, each call remembering whether the call before it failed.         *)
(***************************************************************************)
FrameBlocks == {B1, CT1, SubSeq(B1, 1, 10), B1 \o << 0 >>}

FrameData == {Mixed(1), Mixed(15), Mixed(16)}

FrameConstruct == \E key \in {K128, K256}, cfg \in Configs : Construct(key, 0, cfg, "none")

FrameEncryptBlock == \E b \in FrameBlocks : EncryptBlockCall(AfterLast("encrypt_block", b, "none"))

FrameDecryptBlock == \E b \in FrameBlocks : DecryptBlockCall(AfterLast("decrypt_block", b, "none"))

FrameEncrypt == \E d \in FrameData, p \in PadArgs : EncryptCall(AfterLast("encrypt", d, p))

FrameDecrypt == \E d \in FrameData, p \in PadArgs : DecryptCall(AfterLast("decrypt", d, p))

NextFrame ==
    \/ FrameConstruct
    \/ FrameEncryptBlock
    \/ FrameDecryptBlock
    \/ FrameEncrypt
    \/ FrameDecrypt
    \/ EB_Initial
    \/ EB_SubBytes
    \/ EB_ShiftRows
    \/ EB_MixColumns
    \/ EB_AddRoundKey
    \/ EB_FinalSubBytes
    \/ EB_FinalShiftRows
    \/ EB_FinalAddRoundKey
    \/ EB_Return
    \/ DB_Initial
    \/ DB_InvShiftRows
    \/ DB_InvSubBytes
    \/ DB_AddRoundKey
    \/ DB_InvMixColumns
    \/ DB_FinalInvShiftRows
    \/ DB_FinalInvSubBytes
    \/ DB_FinalAddRoundKey
    \/ DB_Return
    \/ EncLoop
    \/ DecLoop

SpecFrame == Init /\ [][NextFrame]_vars

(***************************************************************************)
(* Concurrent block operations on one shared cipher: NumCallers callers,   *)
(* each in its own encrypt_block or decrypt_block call on one block of a   *)
(* message; a step of the specification is one transformation of one call. *)
(* Here pc, cur, round_num, state and last hold one value per caller.      *)
(***************************************************************************)
Callers == 1..NumCallers

\* a message of NumCallers blocks: caller t works on block t
ConcMessage == Slice(B1 \o CT1 \o B2 \o Mixed(16 * NumCallers), 0, 16 * NumCallers)

\* which operation each caller runs: all encrypt, all decrypt, or alternating
ConcPatterns == {"encrypt", "decrypt", "mixed"}

conc_op(pattern, t) ==
    IF pattern = "encrypt" \/ (pattern = "mixed" /\ t % 2 = 1)
    THEN "encrypt_block" ELSE "decrypt_block"

\* mutant: the State is one object reused by every call
state_slot_shared(t) == 1

\* state = [[0] * 4 for _ in range(4)]: the State of a call is a list created by that call
state_slot(t) == t

InitConc ==
    /\ built = TRUE
    /\ raw_key = K128
    /\ key_size = 128
    /\ nr = NrMap[128]
    /\ expanded_key = expand_key(K128, 128).val
    /\ default_padding = TRUE
    /\ buf = ConcMessage
    /\ idx = 0
    /\ out = << >>
    /\ ops = << >>
    /\ nblocks = 0
    /\ \E pattern \in ConcPatterns :
           cur = [t \in Callers |->
                     Fresh(conc_op(pattern, t), Chunk(ConcMessage, t - 1), "none")]
    /\ pc = [t \in Callers |-> "call"]
    /\ state = [t \in Callers |-> << >>]
    /\ round_num = [t \in Callers |-> 0]
    /\ last = [t \in Callers |-> NoCall]
    /\ logger_level = NOTSET

\* one transformation of encrypt_block at position p on State st in round rn
encrypt_block_step(p, st, rn) ==
    IF p = "eb_initial"
    THEN [state |-> add_round_key(st, get_round_key(expanded_key, 0)),
          round_num |-> 1, pc |-> eb_loop(1)]
    ELSE IF p = "eb_sub_bytes"
    THEN [state |-> sub_bytes(st), round_num |-> rn, pc |-> "eb_shift_rows"]
    ELSE IF p = "eb_shift_rows"
    THEN [state |-> shift_rows(st), round_num |-> rn, pc |-> "eb_mix_columns"]
    ELSE IF p = "eb_mix_columns"
    THEN [state |-> mix_columns(st), round_num |-> rn, pc |-> "eb_add_round_key"]
    ELSE IF p = "eb_add_round_key"
    THEN [state |-> add_round_key(st, get_round_key(expanded_key, rn)),
          round_num |-> rn + 1, pc |-> eb_loop(rn + 1)]
    ELSE IF p = "eb_final_sub_bytes"
    THEN [state |-> sub_bytes(st), round_num |-> rn, pc |-> "eb_final_shift_rows"]
    ELSE IF p = "eb_final_shift_rows"
    THEN [state |-> shift_rows(st), round_num |-> rn, pc |-> "eb_final_add_round_key"]
    ELSE [state |-> add_round_key(st, get_round_key(expanded_key, nr)),
          round_num |-> rn, pc |-> "eb_return"]

\* one transformation of decrypt_block at position p on State st in round rn
decrypt_block_step(p, st, rn) ==
    IF p = "db_initial"
    THEN [state |-> add_round_key(st, get_round_key(expanded_key, nr)),
          round_num |-> nr - 1, pc |-> db_loop(nr - 1)]
    ELSE IF p = "db_inv_shift_rows"
    THEN [state |-> inv_shift_rows(st), round_num |-> rn, pc |-> "db_inv_sub_bytes"]
    ELSE IF p = "db_inv_sub_bytes"
    THEN [state |-> inv_sub_bytes(st), round_num |-> rn, pc |-> "db_add_round_key"]
    ELSE IF p = "db_add_round_key"
    THEN [state |-> add_round_key(st, get_round_key(expanded_key, rn)),
          round_num |-> rn, pc |-> "db_inv_mix_columns"]
    ELSE IF p = "db_inv_mix_columns"
    THEN [state |-> inv_mix_columns(st), round_num |-> rn - 1, pc |-> db_loop(rn - 1)]
    ELSE IF p = "db_final_inv_shift_rows"
    THEN [state |-> inv_shift_rows(st), round_num |-> rn, pc |-> "db_final_inv_sub_bytes"]
    ELSE IF p = "db_final_inv_sub_bytes"
    THEN [state |-> inv_sub_bytes(st), round_num |-> rn, pc |-> "db_final_add_round_key"]
    ELSE [state |-> add_round_key(st, get_round_key(expanded_key, 0)),
          round_num |-> rn, pc |-> "db_return"]

conc_vars == << cipher_vars, logger_level, loop_vars, ops, nblocks >>

\* caller t enters its call: state = self._bytes_to_state(block)
ConcEnter(t) ==
    /\ pc[t] = "call"
    /\ state' = [state EXCEPT ![state_slot(t)] = bytes_to_state(cur[t].arg).val]
    /\ pc' = [pc EXCEPT ![t] = IF cur[t].op = "encrypt_block" THEN "eb_initial"
                                                              ELSE "db_initial"]
    /\ UNCHANGED << conc_vars, cur, round_num, last >>

\* the next transformation of caller t's encrypt_block
ConcEncryptStep(t) ==
    /\ cur[t].op = "encrypt_block"
    /\ pc[t] \notin {"call", "eb_return", "done"}
    /\ LET step == encrypt_block_step(pc[t], state[state_slot(t)], round_num[t])
       IN  /\ state' = [state EXCEPT ![state_slot(t)] = step.state]
           /\ round_num' = [round_num EXCEPT ![t] = step.round_num]
           /\ pc' = [pc EXCEPT ![t] = step.pc]
    /\ UNCHANGED << conc_vars, cur, last >>

\* the next transformation of caller t's decrypt_block
ConcDecryptStep(t) ==
    /\ cur[t].op = "decrypt_block"
    /\ pc[t] \notin {"call", "db_return", "done"}
    /\ LET step == decrypt_block_step(pc[t], state[state_slot(t)], round_num[t])
       IN  /\ state' = [state EXCEPT ![state_slot(t)] = step.state]
           /\ round_num' = [round_num EXCEPT ![t] = step.round_num]
           /\ pc' = [pc EXCEPT ![t] = step.pc]
    /\ UNCHANGED << conc_vars, cur, last >>

\* caller t returns self._state_to_bytes(state)
ConcReturn(t) ==
    /\ pc[t] \in {"eb_return", "db_return"}
    /\ last' = [last EXCEPT ![t] = Returned(cur[t], Ok(state_to_bytes(state[state_slot(t)])))]
    /\ pc' = [pc EXCEPT ![t] = "done"]
    /\ UNCHANGED << conc_vars, cur, state, round_num >>

NextConc ==
    \E t \in Callers :
        \/ ConcEnter(t)
        \/ ConcEncryptStep(t)
        \/ ConcDecryptStep(t)
        \/ ConcReturn(t)

SpecConc == InitConc /\ [][NextConc]_vars

(***************************************************************************)
(* Properties                                                              *)
(***************************************************************************)
ValidKeySizes == {128, 192, 256}

\* C1: on one cipher, for every valid key and every 16-byte block B,
\* decrypt_block applied to what encrypt_block(B) returned succeeds and returns B.
C1_BlockRoundTrip ==
    (last.op = "decrypt_block" /\ last.from_op = "encrypt_block")
        => (last.ok /\ last.val = last.from_arg)

C1_Witness ==
    /\ last.op = "decrypt_block"
    /\ last.from_op = "encrypt_block"
    /\ key_size = 192
    /\ last.from_arg = B2
    /\ last.arg # B2
    /\ last.val = B2

\* C2: for every cipher and every byte string data, of any length (0, 1, 15, 16, 17,
\* several blocks), decrypt(encrypt(data, padding=True), padding=True) succeeds and
\* returns exactly data.
C2_PaddedRoundTrip ==
    (last.op = "decrypt" /\ last.pad = "on" /\ last.from_op = "encrypt" /\ last.from_pad = "on")
        => (last.ok /\ last.val = last.from_arg)

C2_Witness ==
    /\ last.op = "decrypt"
    /\ last.pad = "on"
    /\ last.from_op = "encrypt"
    /\ last.from_pad = "on"
    /\ Len(last.from_arg) = 17
    /\ Len(last.arg) = 32
    /\ nblocks = 2
    /\ last.val = last.from_arg

\* C3: with the 128-bit key 2b7e151628aed2a6abf7158809cf4f3c, encrypt_block of
\* 3243f6a8885a308d313198a2e0370734 returns 3925841d02dc09fbdc118597196a0b32, and
\* decrypt_block of that ciphertext returns the plaintext block (FIPS-197 vector).
C3_KnownAnswer ==
    (raw_key = K128 /\ key_size = 128) =>
        /\ (last.op = "encrypt_block" /\ last.arg = B1) => (last.ok /\ last.val = CT1)
        /\ (last.op = "decrypt_block" /\ last.arg = CT1) => (last.ok /\ last.val = B1)

C3_Witness ==
    /\ raw_key = K128
    /\ key_size = 128
    /\ last.op = "decrypt_block"
    /\ last.from_op = "encrypt_block"
    /\ last.from_arg = B1
    /\ last.arg = CT1
    /\ last.val = B1

\* C4 (errors): a construction whose key size is not 128, 192 or 256 fails with
\* InvalidKeySize whatever the key length is; one with a valid key size and a key of
\* another length than key_size/8 fails with InvalidKeyLength; while no cipher has been
\* constructed there is no key schedule.
C4_Errors ==
    /\ last.op = "construct" =>
          LET ks == effective_key_size(last.ks, last.cfg)
          IN  /\ ks \notin ValidKeySizes => (~last.ok /\ last.err = "InvalidKeySize")
              /\ (ks \in ValidKeySizes /\ Len(last.arg) # ks \div 8)
                    => (~last.ok /\ last.err = "InvalidKeyLength")
    /\ ~built => (expanded_key = << >> /\ nr = 0 /\ pc = "new")

\* C4 (no cipher): a step that ends a construction in an error leaves the key schedule,
\* the key size, the round count and the cipher as they were.
C4_NoCipher == (last'.op = "construct" /\ ~last'.ok) => UNCHANGED << cipher_vars, pc >>

\* C4: construction validates the key size first and the key length second, and a
\* failed construction derives no key schedule and produces no cipher.
C4_ConstructValidation == []C4_Errors /\ [][C4_NoCipher]_vars

C4_Witness ==
    /\ last.op = "construct"
    /\ last.ks = 64
    /\ Len(last.arg) = 10
    /\ last.err = "InvalidKeySize"
    /\ ~built

\* C5: encrypt_block and decrypt_block accept exactly 16 bytes: a call with an input of
\* another length fails with InvalidBlockLength and has applied no transformation; a
\* call with 16 bytes succeeds, and only such a call ever runs the pipeline.
C5_BlockLength ==
    /\ last.op \in {"encrypt_block", "decrypt_block"} =>
          IF Len(last.arg) # 16
          THEN ~last.ok /\ last.err = "InvalidBlockLength" /\ ops = << >> /\ nblocks = 0
          ELSE last.ok /\ Len(last.val) = 16
    /\ cur.op \in {"encrypt_block", "decrypt_block"} => Len(cur.arg) = 16

C5_Witness ==
    /\ last.op = "decrypt_block"
    /\ Len(last.arg) = 17
    /\ last.err = "InvalidBlockLength"
    /\ ops = << >>

\* C6: encrypt with padding disabled fails with InvalidPlaintextLength on data whose
\* length is not a multiple of 16, having encrypted no block and returning nothing;
\* on data whose length is a multiple of 16 it succeeds.
C6_UnpaddedEncrypt ==
    (last.op = "encrypt" /\ ~use_padding(last.pad)) =>
        IF Len(last.arg) % 16 # 0
        THEN /\ ~last.ok
             /\ last.err = "InvalidPlaintextLength"
             /\ last.val = << >>
             /\ nblocks = 0
             /\ ops = << >>
        ELSE last.ok /\ Len(last.val) = Len(last.arg)

C6_Witness ==
    /\ last.op = "encrypt"
    /\ last.pad = "off"
    /\ Len(last.arg) = 15
    /\ last.err = "InvalidPlaintextLength"
    /\ nblocks = 0

\* C7: decrypt on data whose length is not a multiple of 16 fails with
\* InvalidCiphertextLength, whatever the padding flag, before any block is decrypted.
C7_CiphertextLength ==
    (last.op = "decrypt" /\ Len(last.arg) % 16 # 0) =>
        /\ ~last.ok
        /\ last.err = "InvalidCiphertextLength"
        /\ nblocks = 0
        /\ ops = << >>

C7_Witness ==
    /\ last.op = "decrypt"
    /\ last.pad = "on"
    /\ Len(last.arg) = 17
    /\ last.err = "InvalidCiphertextLength"
    /\ nblocks = 0

\* C8 as stated: whenever a call has ended in an error, no block operation and no
\* round transformation was executed by it.
C8_AllErrorsUpfront ==
    (last.op # "none" /\ ~last.ok) => (nblocks = 0 /\ ops = << >>)

\* C8 amended: every error but InvalidPadding is raised before any block operation or
\* round transformation; InvalidPadding is raised by decrypt only, after every block of
\* the input has been decrypted, and no plaintext is returned with it.
C8_ErrorsUpfrontButPadding ==
    (last.op # "none" /\ ~last.ok) =>
        /\ last.val = << >>
        /\ last.err \in {"InvalidKeySize", "InvalidKeyLength", "InvalidBlockLength",
                         "InvalidPlaintextLength", "InvalidCiphertextLength",
                         "InvalidPadding", "EmptyInputUnpad"}
        /\ IF last.err = "InvalidPadding"
           THEN /\ last.op = "decrypt"
                /\ use_padding(last.pad)
                /\ nblocks >= 1
                /\ nblocks * 16 = Len(last.arg)
           ELSE nblocks = 0 /\ ops = << >>

C8_Witness ==
    /\ last.op = "decrypt"
    /\ last.err = "InvalidPadding"
    /\ nblocks = 1
    /\ Len(ops) > 0

\* C9: for every valid key the expanded key schedule has exactly 16*(Nr+1) bytes, with
\* Nr = 10, 12, 14 for key sizes 128, 192, 256: 176, 208 and 240 bytes.
C9_ScheduleLength ==
    built =>
        /\ key_size \in ValidKeySizes
        /\ Len(expanded_key) = 16 * (nr + 1)
        /\ key_size = 128 => (nr = 10 /\ Len(expanded_key) = 176)
        /\ key_size = 192 => (nr = 12 /\ Len(expanded_key) = 208)
        /\ key_size = 256 => (nr = 14 /\ Len(expanded_key) = 240)

C9_Witness == built /\ key_size = 256 /\ Len(raw_key) = 32 /\ Len(expanded_key) = 240

\* C10: pad(data) appends n = 16 - (len(data) mod 16) bytes, each of value n, with
\* 1 <= n <= 16; data is kept as a prefix, the result length is a positive multiple of
\* 16, and data whose length is a multiple of 16 (0 included) gets sixteen 0x10 bytes.
C10_Pad ==
    pc = "padded" =>
        LET n == 16 - (Len(buf) % 16)
        IN  /\ n >= 1 /\ n <= 16
            /\ Len(out) = Len(buf) + n
            /\ SubSeq(out, 1, Len(buf)) = buf
            /\ \A k \in (Len(buf) + 1)..Len(out) : out[k] = n
            /\ Len(out) > 0
            /\ Len(out) % 16 = 0
            /\ Len(buf) % 16 = 0 => SubSeq(out, Len(buf) + 1, Len(out)) = Repeat(16, 16)

C10_Witness ==
    /\ pc = "padded"
    /\ Len(buf) = 32
    /\ Len(out) = 48
    /\ out[48] = 16

\* C11: unpad of non-empty data whose last byte is n succeeds if and only if
\* 1 <= n <= 16, n <= len(data) and each of the last n bytes is n; on success it
\* returns data without its last n bytes, otherwise it fails with InvalidPadding.
C11_Unpad ==
    (pc = "unpadded" /\ Len(buf) > 0) =>
        LET n == buf[Len(buf)]
            valid == /\ n >= 1 /\ n <= 16
                     /\ n <= Len(buf)
                     /\ \A k \in (Len(buf) - n + 1)..Len(buf) : buf[k] = n
        IN  /\ last.ok <=> valid
            /\ valid => last.val = SubSeq(buf, 1, Len(buf) - n)
            /\ ~valid => last.err = "InvalidPadding"

C11_Witness ==
    /\ pc = "unpadded"
    /\ Len(buf) = 18
    /\ buf[18] = 16
    /\ buf[17] = 16
    /\ buf[16] # 16
    /\ ~last.ok
    /\ last.err = "InvalidPadding"

\* C12: for every byte string data of length L >= 0, unpad(pad(data)) = data.
C12_PadRoundTrip ==
    pc = "round_trip" => (last.ok /\ last.val = buf)

C12_Witness ==
    /\ pc = "round_trip"
    /\ Len(buf) = 16
    /\ Len(out) = 32
    /\ last.ok
    /\ last.val = buf

\* C13: encrypt has no chaining: the i-th 16-byte chunk of its output is what
\* encrypt_block returns for the i-th chunk of the (padded) input, in the input's
\* block order, so equal plaintext blocks give equal ciphertext blocks and a
\* ciphertext block depends on the plaintext block at its position only.
C13_NoChaining ==
    /\ (last.op = "encrypt_block" /\ last.ok) => last.val = encrypt_block(last.arg).val
    /\ (last.op = "encrypt" /\ last.ok) =>
           LET input == encrypt_input(last.arg, use_padding(last.pad)).val
               count == Len(input) \div 16
           IN  /\ Len(last.val) = Len(input)
               /\ \A i \in 0..(count - 1) :
                      Chunk(last.val, i) = encrypt_block(Chunk(input, i)).val
               /\ \A i, j \in 0..(count - 1) :
                      Chunk(input, i) = Chunk(input, j) => Chunk(last.val, i) = Chunk(last.val, j)

C13_Witness ==
    /\ last.op = "encrypt"
    /\ last.ok
    /\ last.arg = Repeat(16, 16)
    /\ use_padding(last.pad)
    /\ Len(last.val) = 32
    /\ Chunk(last.val, 0) = Chunk(last.val, 1)

RECURSIVE Reassembled(_)
\* the results of callers 1..t put together in block order
Reassembled(t) == IF t = 0 THEN << >> ELSE Reassembled(t - 1) \o last[t].val

\* what caller t's call returns when it runs alone on the cipher
alone(t) ==
    IF cur[t].op = "encrypt_block" THEN encrypt_block(cur[t].arg)
                                   ELSE decrypt_block(cur[t].arg)

\* C14 (states): under every interleaving each call returns what it returns when it
\* runs alone, and blocks processed concurrently and reassembled in block order are
\* the sequential result.
C14_Results ==
    /\ \A t \in Callers : pc[t] = "done" => (last[t].ok /\ last[t].val = alone(t).val)
    /\ (\A t \in Callers : pc[t] = "done" /\ cur[t].op = "encrypt_block") =>
           Reassembled(NumCallers) = encrypt(buf, FALSE).val
    /\ (\A t \in Callers : pc[t] = "done" /\ cur[t].op = "decrypt_block") =>
           Reassembled(NumCallers) = decrypt(buf, FALSE).val

\* C14 (steps): a step of one call leaves the State of every other call and the
\* expanded key as they were.
C14_OwnState ==
    /\ expanded_key' = expanded_key
    /\ \A t \in Callers : pc'[t] = pc[t] => state'[t] = state[t]

\* C14: concurrent encrypt_block/decrypt_block calls on one shared cipher do not
\* interfere: each works on its own State, the expanded key is only read, and each
\* returns the bytes it returns alone, so blocks may be processed in any order.
C14_Concurrent == []C14_Results /\ [][C14_OwnState]_vars

C14_Witness ==
    /\ DOMAIN pc = Callers
    /\ \A t \in Callers : pc[t] = "done"
    /\ cur[1].op = "encrypt_block"
    /\ cur[2].op = "decrypt_block"
    /\ last[1].val = CT1
    /\ last[2].val = B1

\* what a call returns on the cipher as constructed, whatever was called before it
result_of(call) ==
    IF call.op = "encrypt_block" THEN encrypt_block(call.arg)
    ELSE IF call.op = "decrypt_block" THEN decrypt_block(call.arg)
    ELSE IF call.op = "encrypt" THEN encrypt(call.arg, use_padding(call.pad))
    ELSE decrypt(call.arg, use_padding(call.pad))

\* C15 (steps): no step of a call, successful or failing, changes the expanded key,
\* the key size, the round count or the default padding of a constructed cipher.
C15_FieldsKept ==
    (built /\ last'.op # "construct") => UNCHANGED cipher_vars

\* C15 (states): a call returns what it returns on the cipher as constructed, also
\* when the call before it failed.
C15_SameResult ==
    (pc = "idle" /\ last.op \in {"encrypt_block", "decrypt_block", "encrypt", "decrypt"}) =>
        LET res == result_of(last)
        IN  /\ last.ok = res.ok
            /\ last.err = res.err
            /\ last.val = res.val

\* C15: after construction no sequence of calls changes the cipher's expanded key,
\* key size, round count or default padding, and a valid call after a failed call
\* returns what it returns without the failed call.
C15_Frame == []C15_SameResult /\ [][C15_FieldsKept]_vars

C15_Witness ==
    /\ pc = "idle"
    /\ last.op = "encrypt_block"
    /\ last.after = "InvalidPadding"
    /\ last.arg = B1
    /\ last.ok
    /\ last.val = CT1

\* C16 (construction): the key size is the explicit argument, or the configuration's
\* (128 by default) when the argument is None; the padding default is the
\* configuration's (True by default).
C16_KeySize ==
    (last.op = "construct" /\ last.ok) =>
        /\ key_size = (IF last.ks # 0 THEN last.ks ELSE IF last.cfg = "none" THEN 128 ELSE 256)
        /\ default_padding = (last.cfg = "none")

\* C16 (calls): encrypt and decrypt pad and unpad exactly when the explicit flag says
\* so, or when the cipher's default says so and the flag is None.
C16_Flag ==
    LET flag == IF last.pad = "none" THEN default_padding ELSE last.pad = "on"
    IN  /\ (last.op = "encrypt" /\ last.ok) =>
               IF flag THEN Len(last.val) = Len(last.arg) + 16 - (Len(last.arg) % 16)
                       ELSE Len(last.val) = Len(last.arg)
        /\ (last.op = "encrypt" /\ ~last.ok) => ~flag
        /\ (last.op = "decrypt" /\ last.ok) =>
               IF flag THEN Len(last.val) < Len(last.arg)
                       ELSE Len(last.val) = Len(last.arg)
        /\ (last.op = "decrypt" /\ last.err \in {"InvalidPadding", "EmptyInputUnpad"}) => flag

\* C16 (steps): the padding default stays the one fixed at construction.
C16_DefaultFixed ==
    (built /\ last'.op # "construct") => default_padding' = default_padding

\* C16: an explicit key_size or padding flag is the one used; when the argument is
\* None the configuration's value is used (defaults 128 and True), the padding
\* default being the one fixed at construction.
C16_Precedence == [](C16_KeySize /\ C16_Flag) /\ [][C16_DefaultFixed]_vars

C16_Witness ==
    /\ last.op = "encrypt"
    /\ last.ok
    /\ last.pad = "on"
    /\ ~default_padding
    /\ key_size = 128
    /\ Len(last.arg) = 16
    /\ Len(last.val) = 32

\* C17: after constructing a cipher without enable_logging under the default
\* configuration, the level of its logger is NOTSET or WARNING, whatever ciphers
\* were constructed before it.
C17_DisabledByDefault ==
    (last.op = "construct" /\ last.ok /\ last.log = "none" /\ last.cfg = "none") =>
        logger_level \in {NOTSET, level_map.WARNING}

\* C18: for every 4x4 State S, InvShiftRows(ShiftRows(S)) = S.
C18_ShiftRowsInverse ==
    (pc = "xf_twice" /\ ops = << "ShiftRows", "InvShiftRows" >>) => state = buf

C18_Witness ==
    /\ pc = "xf_twice"
    /\ ops = << "ShiftRows", "InvShiftRows" >>
    /\ buf[2] = << 5, 6, 7, 8 >>
    /\ state[2] = << 5, 6, 7, 8 >>

\* the forward and the inverse matrix of MixColumns, row by row
MixMatrix == << << 2, 3, 1, 1 >>, << 1, 2, 3, 1 >>, << 1, 1, 2, 3 >>, << 3, 1, 1, 2 >> >>

InvMixMatrix ==
    << << 14, 11, 13, 9 >>, << 9, 14, 11, 13 >>, << 13, 9, 14, 11 >>, << 11, 13, 9, 14 >> >>

\* the product of a 4x4 matrix of multipliers and a State over GF(2^8)
MatMul(M, st) ==
    [r \in 1..4 |-> [c \in 1..4 |->
        xor_bits(xor_bits(gmul(st[1][c], M[r][1]), gmul(st[2][c], M[r][2])),
                 xor_bits(gmul(st[3][c], M[r][3]), gmul(st[4][c], M[r][4])))]]

\* C19: MixColumns multiplies every column of the State by the matrix with rows
\* [2,3,1,1], [1,2,3,1], [1,1,2,3], [3,1,1,2] over GF(2^8), each column taken as it
\* was before the transformation, and InvMixColumns, the product with the matrix
\* with rows [14,11,13,9], [9,14,11,13], [13,9,14,11], [11,13,9,14], undoes it.
C19_MixColumnsInverse ==
    /\ (pc = "xf_once" /\ ops = << "MixColumns" >>) => state = MatMul(MixMatrix, buf)
    /\ (pc = "xf_twice" /\ ops = << "MixColumns", "InvMixColumns" >>) =>
           /\ state = buf
           /\ state = MatMul(InvMixMatrix, StateOf(MatMul(MixMatrix, buf)))

C19_Witness ==
    /\ pc = "xf_twice"
    /\ ops = << "MixColumns", "InvMixColumns" >>
    /\ buf[1] = << 219, 19, 83, 69 >>
    /\ state[1] = << 219, 19, 83, 69 >>

\* C20 (states): AddRoundKey XORs entry [i][j] of the State with byte i + 4j of the
\* round key, and applied twice with the same key it gives the State back.
C20_Xor ==
    /\ (pc = "xf_once" /\ ops = << "AddRoundKey" >>) =>
           \A i, j \in 0..3 : state[i + 1][j + 1] = xor_bits(buf[i + 1][j + 1], out[i + 4 * j + 1])
    /\ (pc = "xf_twice" /\ ops = << "AddRoundKey", "AddRoundKey" >>) => state = buf

\* C20 (steps): the round key is not modified.
C20_KeyKept == out' = out

\* C20: AddRoundKey is involutory, XORs entry [i][j] with key byte i + 4j, and
\* leaves the round key as it was.
C20_AddRoundKeyInvolutory == []C20_Xor /\ [][C20_KeyKept]_vars

C20_Witness ==
    /\ pc = "xf_twice"
    /\ ops = << "AddRoundKey", "AddRoundKey" >>
    /\ out = K128
    /\ buf[1] = << 25, 160, 154, 233 >>
    /\ state = buf

\* C21: INV_SBOX[SBOX[x]] = x for every byte x in 0..255, so for every State S,
\* InvSubBytes(SubBytes(S)) = S.
C21_SBoxInverse ==
    /\ \A x \in 0..255 : INV_SBOX[SBOX[x]] = x
    /\ (pc = "xf_twice" /\ ops = << "SubBytes", "InvSubBytes" >>) => state = buf

C21_Witness ==
    /\ pc = "xf_twice"
    /\ ops = << "SubBytes", "InvSubBytes" >>
    /\ buf[1] = << 240, 241, 242, 243 >>
    /\ state[4] = << 252, 253, 254, 255 >>

\* C22: for every byte x, gmul_2(x) = gmul(x, 2), gmul_3(x) = gmul(x, 3),
\* gmul_9(x) = gmul(x, 9), gmul_11(x) = gmul(x, 11), gmul_13(x) = gmul(x, 13) and
\* gmul_14(x) = gmul(x, 14), and every result is a byte in 0..255.
C22_Multipliers ==
    pc = "gf_done" => (out = gmul(idx, round_num) /\ out \in 0..255)

C22_Witness ==
    /\ pc = "gf_done"
    /\ round_num = 2
    /\ idx = 255
    /\ out = 229

\* C23: encrypt_block applies AddRoundKey with round key 0, then for each round
\* 1..Nr-1 in increasing order SubBytes, ShiftRows, MixColumns, AddRoundKey with the
\* round key of that round, then SubBytes, ShiftRows, AddRoundKey with round key Nr:
\* AddRoundKey Nr+1 times with the keys 0..Nr once each in increasing order, SubBytes
\* and ShiftRows Nr times, MixColumns Nr-1 times and never in the final round.
C23_ForwardPipeline ==
    LET main == << "SubBytes", "ShiftRows", "MixColumns", "AddRoundKey" >>
        final == << "SubBytes", "ShiftRows", "AddRoundKey" >>
        pipeline == [k \in 1..(4 * nr) |->
                        IF k = 1 THEN << "AddRoundKey", 0 >>
                        ELSE IF k <= 4 * nr - 3
                             THEN << main[((k - 2) % 4) + 1], ((k - 2) \div 4) + 1 >>
                             ELSE << final[k - (4 * nr - 3)], nr >>]
        times(name) == Cardinality({k \in 1..Len(ops) : ops[k][1] = name})
        keys == [k \in {n \in 1..Len(ops) : ops[n][1] = "AddRoundKey"} |-> ops[k][2]]
    IN  /\ pc = "eb_initial" => ops = << >>
        /\ pc \in {"eb_sub_bytes", "eb_shift_rows", "eb_mix_columns", "eb_add_round_key",
                    "eb_final_sub_bytes", "eb_final_shift_rows", "eb_final_add_round_key"} =>
               /\ ops # << >>
               /\ Len(ops) < 4 * nr
               /\ \A k \in 1..Len(ops) : ops[k] = pipeline[k]
        /\ pc = "eb_return" =>
               /\ ops = pipeline
               /\ times("AddRoundKey") = nr + 1
               /\ {keys[k] : k \in DOMAIN keys} = 0..nr
               /\ \A a, b \in DOMAIN keys : a < b => keys[a] < keys[b]
               /\ times("SubBytes") = nr
               /\ times("ShiftRows") = nr
               /\ times("MixColumns") = nr - 1
               /\ \A k \in 1..Len(ops) : ops[k][1] = "MixColumns" => ops[k][2] < nr

C23_Witness ==
    /\ pc = "eb_return"
    /\ nr = 14
    /\ Len(ops) = 56
    /\ ops[1] = << "AddRoundKey", 0 >>
    /\ ops[52] = << "MixColumns", 13 >>
    /\ ops[56] = << "AddRoundKey", 14 >>

\* C24: decrypt_block applies AddRoundKey with round key Nr, then for each round
\* Nr-1 down to 1 InvShiftRows, InvSubBytes, AddRoundKey with the round key of that
\* round, InvMixColumns, then InvShiftRows, InvSubBytes, AddRoundKey with round key 0:
\* the round keys Nr, Nr-1, ..., 0 once each in that order, and InvMixColumns Nr-1
\* times, each time right after the AddRoundKey of its round.
C24_InversePipeline ==
    LET main == << "InvShiftRows", "InvSubBytes", "AddRoundKey", "InvMixColumns" >>
        final == << "InvShiftRows", "InvSubBytes", "AddRoundKey" >>
        pipeline == [k \in 1..(4 * nr) |->
                        IF k = 1 THEN << "AddRoundKey", nr >>
                        ELSE IF k <= 4 * nr - 3
                             THEN << main[((k - 2) % 4) + 1], nr - 1 - ((k - 2) \div 4) >>
                             ELSE << final[k - (4 * nr - 3)], 0 >>]
        times(name) == Cardinality({k \in 1..Len(ops) : ops[k][1] = name})
        keys == [k \in {n \in 1..Len(ops) : ops[n][1] = "AddRoundKey"} |-> ops[k][2]]
    IN  /\ pc = "db_initial" => ops = << >>
        /\ pc \in {"db_inv_shift_rows", "db_inv_sub_bytes", "db_add_round_key",
                    "db_inv_mix_columns", "db_final_inv_shift_rows",
                    "db_final_inv_sub_bytes", "db_final_add_round_key"} =>
               /\ ops # << >>
               /\ Len(ops) < 4 * nr
               /\ \A k \in 1..Len(ops) : ops[k] = pipeline[k]
        /\ pc = "db_return" =>
               /\ ops = pipeline
               /\ times("AddRoundKey") = nr + 1
               /\ {keys[k] : k \in DOMAIN keys} = 0..nr
               /\ \A a, b \in DOMAIN keys : a < b => keys[a] > keys[b]
               /\ times("InvMixColumns") = nr - 1
               /\ \A k \in 1..Len(ops) :
                      ops[k][1] = "InvMixColumns" =>
                          k > 1 /\ ops[k - 1] = << "AddRoundKey", ops[k][2] >>

C24_Witness ==
    /\ pc = "db_return"
    /\ nr = 12
    /\ Len(ops) = 48
    /\ ops[1] = << "AddRoundKey", 12 >>
    /\ ops[5] = << "InvMixColumns", 11 >>
    /\ ops[48] = << "AddRoundKey", 0 >>

\* C25: the first Nk words of the schedule are the key bytes unchanged (round key 0
\* is the first 16 key bytes), and for every word index i from Nk to 4*(Nr+1)-1,
\* schedule[i] = schedule[i-Nk] XOR temp, where temp is schedule[i-1], replaced by
\* SubWord(RotWord(temp)) with its first byte XORed with Rcon[i/Nk] when
\* i % Nk = 0, or by SubWord(temp) when Nk > 6 and i % Nk = 4.
C25_Recurrence ==
    LET Nk == Len(raw_key) \div 4
        schedule == [i \in 0..(idx - 1) |-> SubSeq(buf, 4 * i + 1, 4 * i + 4)]
        SubWord(w) == << SBOX[w[1]], SBOX[w[2]], SBOX[w[3]], SBOX[w[4]] >>
        RotWord(w) == << w[2], w[3], w[4], w[1] >>
        temp(i) ==
            IF i % Nk = 0
            THEN LET t == SubWord(RotWord(schedule[i - 1]))
                 IN  << xor_bits(t[1], RCON[i \div Nk]), t[2], t[3], t[4] >>
            ELSE IF Nk > 6 /\ i % Nk = 4
                 THEN SubWord(schedule[i - 1])
                 ELSE schedule[i - 1]
    IN  pc = "kx_loop" =>
            /\ Len(buf) = 4 * idx
            /\ idx <= 4 * (nr + 1)
            /\ SubSeq(buf, 1, 4 * Nk) = raw_key
            /\ get_round_key(buf, 0) = SubSeq(raw_key, 1, 16)
            /\ \A i \in Nk..(idx - 1) :
                   \A j \in 1..4 : schedule[i][j] = xor_bits(schedule[i - Nk][j], temp(i)[j])
            /\ idx = 4 * (nr + 1) => buf = expand_key(raw_key, key_size).val

C25_Witness ==
    /\ pc = "kx_loop"
    /\ raw_key = K256
    /\ idx = 60
    /\ Len(buf) = 240
    /\ SubSeq(buf, 1, 32) = K256

\* C30: during expand_key, for every valid key size, every Rcon index i/Nk that is
\* read lies in 1..10 (exactly 1..10 for 128-bit, 1..8 for 192-bit and 1..7 for
\* 256-bit keys, each read once, in increasing order), index 0 is never read, and
\* the extra SubWord branch is taken only for 256-bit keys and never in the step of
\* an Rcon read.
C30_RconIndices ==
    LET Nk == Len(raw_key) \div 4
        reads == SelectSeq(ops, LAMBDA o : o[1] = "rcon")
        last_read == IF key_size = 128 THEN 10 ELSE IF key_size = 192 THEN 8 ELSE 7
    IN  pc = "kx_loop" =>
            /\ \A k \in 1..Len(reads) : reads[k][2] = k /\ reads[k][2] \in 1..10
            /\ Len(reads) <= last_read
            /\ idx = 4 * (nr + 1) => Len(reads) = last_read
            /\ \A k \in 1..Len(ops) :
                   /\ ops[k][1] = "rcon" <=> (Nk + k - 1) % Nk = 0
                   /\ ops[k][1] = "sub_word" =>
                          /\ key_size = 256
                          /\ (Nk + k - 1) % Nk = 4

C30_Witness ==
    /\ pc = "kx_loop"
    /\ raw_key = K256
    /\ idx = 60
    /\ Len(ops) = 52
    /\ ops[5] = << "sub_word", 1 >>
    /\ ops[49] = << "rcon", 7 >>

\* C26 (steps): ShiftRows moves the entry at column c of row r to column c - r
\* (mod 4), InvShiftRows moves it to column c + r (mod 4); row 0 stays as it is.
C26_Step ==
    /\ ops' = << "ShiftRows" >> =>
           /\ state'[1] = state[1]
           /\ \A r, c \in 0..3 : state'[r + 1][c + 1] = state[r + 1][((c + r) % 4) + 1]
    /\ ops' = << "ShiftRows", "InvShiftRows" >> =>
           /\ state'[1] = state[1]
           /\ \A r, c \in 0..3 : state'[r + 1][((c + r) % 4) + 1] = state[r + 1][c + 1]

\* C26: ShiftRows rotates row r of the State cyclically left by r positions for
\* r = 1, 2, 3 and leaves row 0 unchanged; InvShiftRows rotates row r right by r
\* positions and leaves row 0 unchanged.
C26_Rotations == [][C26_Step]_vars

C26_Witness ==
    /\ pc = "xf_once"
    /\ ops = << "ShiftRows" >>
    /\ buf = << << 1, 2, 3, 4 >>, << 5, 6, 7, 8 >>, << 9, 10, 11, 12 >>, << 13, 14, 15, 16 >> >>
    /\ state = << << 1, 2, 3, 4 >>, << 6, 7, 8, 5 >>, << 11, 12, 9, 10 >>, << 16, 13, 14, 15 >> >>

\* C27: decrypt of empty data with padding enabled fails with EmptyInputUnpad (the
\* empty input passes the length check and no block is decrypted), and decrypt of
\* empty data with padding disabled returns the empty byte string.
C27_DecryptEmpty ==
    (last.op = "decrypt" /\ last.arg = << >>) =>
        /\ nblocks = 0
        /\ ops = << >>
        /\ IF use_padding(last.pad)
           THEN ~last.ok /\ last.err = "EmptyInputUnpad"
           ELSE last.ok /\ last.val = << >>

C27_Witness ==
    /\ last.op = "decrypt"
    /\ last.arg = << >>
    /\ last.pad = "on"
    /\ ~last.ok
    /\ last.err = "EmptyInputUnpad"

\* C28: for every data whose length is a multiple of 16,
\* decrypt(encrypt(data, padding=False), padding=True) never returns data: it fails
\* with InvalidPadding or EmptyInputUnpad, or returns data without its last 1..16
\* bytes; and for every data, decrypt(encrypt(data, padding=True), padding=False)
\* returns data followed by its 1..16 padding bytes.
C28_FlagsMustMatch ==
    LET data == last.from_arg
        enc_padding == use_padding(last.from_pad)
        dec_padding == use_padding(last.pad)
    IN  (last.op = "decrypt" /\ last.from_op = "encrypt") =>
            /\ (~enc_padding /\ dec_padding) =>
                   /\ Len(data) % 16 = 0
                   /\ IF last.ok
                      THEN /\ last.val # data
                           /\ \E n \in 1..16 :
                                  /\ n <= Len(data)
                                  /\ last.val = SubSeq(data, 1, Len(data) - n)
                      ELSE last.err \in {"InvalidPadding", "EmptyInputUnpad"}
            /\ (enc_padding /\ ~dec_padding) =>
                   /\ last.ok
                   /\ Len(last.val) % 16 = 0
                   /\ \E n \in 1..16 : last.val = data \o [k \in 1..n |-> n]

C28_Witness ==
    /\ last.op = "decrypt"
    /\ last.from_op = "encrypt"
    /\ last.from_pad = "off"
    /\ last.pad = "on"
    /\ last.from_arg = [k \in 1..16 |-> 2]
    /\ last.ok
    /\ last.val = [k \in 1..14 |-> 2]

\* C29: the key size is never inferred from the key length: a construction with
\* key_size unset and no configuration uses 128 bits, so a 24-byte or 32-byte key
\* fails with InvalidKeyLength and only a 16-byte key is accepted.
C29_NoInference ==
    (last.op = "construct" /\ last.ks = 0 /\ last.cfg = "none") =>
        IF Len(last.arg) = 16
        THEN /\ last.ok
             /\ built
             /\ raw_key = last.arg
             /\ key_size = 128
             /\ nr = 10
             /\ Len(expanded_key) = 176
        ELSE ~last.ok /\ last.err = "InvalidKeyLength"

C29_Witness ==
    /\ last.op = "construct"
    /\ last.ks = 0
    /\ last.cfg = "none"
    /\ last.arg = K256
    /\ ~last.ok
    /\ last.err = "InvalidKeyLength"

====
